---------------------------- MODULE Spec2Model ----------------------------
(***************************************************************************)
(* A model of the MIPS I core of e-mips (src/src/cpu/mips1): the register  *)
(* file, the decoder, the instruction semantics, the step loop and the     *)
(* exception handshake with coprocessor 0.                                 *)
(*                                                                         *)
(* A 32-bit word (u32) is the pair <<h, l>> of its high and low 16-bit     *)
(* halves, each in 0..65535: TLC's integers are 32-bit signed, so a u32    *)
(* does not fit in one of them.  All arithmetic below is exact 32-bit      *)
(* arithmetic carried out on the two halves.                               *)
(***************************************************************************)
EXTENDS Integers, Naturals, Sequences, FiniteSets, TLC

(***************************************************************************)
(* Bounds of the model.                                                    *)
(***************************************************************************)
\* Size in bytes of the memory behind the bus.
MemSize == 48
\* Number of step() calls explored in one behaviour.
MaxSteps == 4
\* Number of write_gp calls made by the embedder in one behaviour.
MaxWrites == 1
\* Number of times coprocessor 0 answers true to external_interrupt.
MaxIrqs == 1
\* Number of reset() calls made by the embedder in one behaviour.
MaxResets == 1

(***************************************************************************)
(* 32-bit words                                                            *)
(***************************************************************************)
M16 == 2 ^ 16
M15 == 2 ^ 15

W(h, l) == <<h, l>>
Zero32 == W(0, 0)
U32(n) == W(n \div M16, n % M16)

\* u32::wrapping_add (src/src/cpu/mips1/instructions.rs:37)
wrapping_add(a, b) ==
    LET s == a[2] + b[2]
    IN  W((a[1] + b[1] + (s \div M16)) % M16, s % M16)

\* u32::wrapping_sub (src/src/cpu/mips1/instructions.rs:64)
wrapping_sub(a, b) ==
    LET borrow == IF a[2] < b[2] THEN 1 ELSE 0
    IN  W((a[1] + M16 - b[1] - borrow) % M16, (a[2] + M16 - b[2]) % M16)

\* Unsigned comparison of two u32 values.
ULess(a, b) == a[1] < b[1] \/ (a[1] = b[1] /\ a[2] < b[2])

\* The value of a word read as i32 (`x as i32`): every i32 fits a TLC integer.
AsI32(a) == (IF a[1] >= M15 THEN a[1] - M16 ELSE a[1]) * M16 + a[2]

\* The word whose i32 reading is n, for n in the i32 range (`n as u32`).
FromI32(n) == W((n \div M16) % M16, n % M16)

\* Option<u32>
None == <<>>
Some(w) == <<w>>
IsSome(o) == Len(o) = 1
Unwrap(o) == o[1]

\* u32::checked_add: None when the unsigned sum does not fit 32 bits.
checked_add(a, b) ==
    IF a[1] + b[1] + ((a[2] + b[2]) \div M16) >= M16
    THEN None
    ELSE Some(wrapping_add(a, b))

\* u32::checked_sub: None when the unsigned difference is negative.
checked_sub(a, b) ==
    IF ULess(a, b) THEN None ELSE Some(wrapping_sub(a, b))

\* src/src/common.rs: sign_extend_8, sign_extend_16
sign_extend_8(val) == W(IF val >= 128 THEN 65535 ELSE 0,
                        IF val >= 128 THEN 65280 + val ELSE val)
sign_extend_16(val) == W(IF val >= M15 THEN 65535 ELSE 0, val)

\* `imm as u32`
zero_extend_16(val) == W(0, val)

(***************************************************************************)
(* Bitwise operations on 16-bit halves and on words.                       *)
(***************************************************************************)
RECURSIVE Bits16(_, _, _, _)
\* Combine a and b bit by bit over n bits; tt is the truth table
\* <<f(0,0), f(0,1), f(1,0), f(1,1)>>.
Bits16(tt, a, b, n) ==
    IF n = 0 THEN 0
    ELSE tt[2 * (a % 2) + (b % 2) + 1] + 2 * Bits16(tt, a \div 2, b \div 2, n - 1)

And16(a, b) == Bits16(<<0, 0, 0, 1>>, a, b, 16)
Or16(a, b)  == Bits16(<<0, 1, 1, 1>>, a, b, 16)
Xor16(a, b) == Bits16(<<0, 1, 1, 0>>, a, b, 16)

And32(a, b) == W(And16(a[1], b[1]), And16(a[2], b[2]))
Or32(a, b)  == W(Or16(a[1], b[1]), Or16(a[2], b[2]))
Xor32(a, b) == W(Xor16(a[1], b[1]), Xor16(a[2], b[2]))
Not32(a)    == W(65535 - a[1], 65535 - a[2])

Pow2(n) == 2 ^ n

\* `w << n` on u32, 0 <= n <= 31
Shl32(w, n) ==
    IF n >= 16
    THEN W((w[2] * Pow2(n - 16)) % M16, 0)
    ELSE W(((w[1] * Pow2(n)) % M16) + ((w[2] * Pow2(n)) \div M16),
           (w[2] * Pow2(n)) % M16)

\* `w >> n` on u32, 0 <= n <= 31
Shr32(w, n) ==
    IF n >= 16
    THEN W(0, w[1] \div Pow2(n - 16))
    ELSE W(w[1] \div Pow2(n),
           (w[2] \div Pow2(n)) + (((w[1] % Pow2(n)) * Pow2(16 - n)) % M16))

\* `(w as i32) >> n`, 0 <= n <= 31: floor division of the signed value.
Sar32(w, n) ==
    IF n = 31
    THEN (IF w[1] >= M15 THEN W(65535, 65535) ELSE Zero32)
    ELSE FromI32(AsI32(w) \div Pow2(n))



(***************************************************************************)
(* Decoder (src/src/cpu/mips1/instructions.rs, MIPSIInstruction::decode)   *)
(*                                                                         *)
(* A decoded instruction is a record: op names the variant of the enum     *)
(* MIPSIInstruction and the other fields are the operands decode extracts  *)
(* from the word (a variant reads only the ones it carries).  The value    *)
(* NoInstr stands for decode's None.                                       *)
(***************************************************************************)
Instr(name, w) ==
    [op        |-> name,
     source    |-> (w[1] \div 32) % 32,
     target    |-> w[1] % 32,
     dest      |-> w[2] \div 2048,
     shift_amt |-> (w[2] \div 64) % 32,
     imm       |-> w[2],
     addr      |-> (w[1] % 1024) * M16 + w[2],
     coproc    |-> (w[1] \div 1024) % 4,
     fun       |-> (w[1] % 512) * M16 + w[2]]

NoInstr == Instr("None", Zero32)

\* The SPECIAL arm: match special_op { ... }
DecodeSpecial(special_op) ==
    CASE special_op = 32 -> "ADD"
      [] special_op = 33 -> "ADDU"
      [] special_op = 34 -> "SUB"
      [] special_op = 35 -> "SUBU"
      [] special_op = 24 -> "MULT"
      [] special_op = 25 -> "MULTU"
      [] special_op = 26 -> "DIV"
      [] special_op = 27 -> "DIVU"
      [] special_op = 16 -> "MFHI"
      [] special_op = 18 -> "MFLO"
      [] special_op = 17 -> "MTHI"
      [] special_op = 19 -> "MTLO"
      [] special_op = 36 -> "AND"
      [] special_op = 37 -> "OR"
      [] special_op = 38 -> "XOR"
      [] special_op = 39 -> "NOR"
      [] special_op = 0  -> "SLL"
      [] special_op = 4  -> "SLLV"
      [] special_op = 2  -> "SRL"
      [] special_op = 6  -> "SRLV"
      [] special_op = 3  -> "SRA"
      [] special_op = 7  -> "SRAV"
      [] special_op = 42 -> "SLT"
      [] special_op = 43 -> "SLTU"
      [] special_op = 8  -> "JR"
      [] special_op = 9  -> "JALR"
      [] special_op = 12 -> "SYSCALL"
      [] special_op = 13 -> "BRK"
      [] OTHER -> "None"

\* The REGIMM arm: match target { ... }
DecodeRegimm(target) ==
    CASE target = 0  -> "BLTZ"
      [] target = 1  -> "BGEZ"
      [] target = 16 -> "BLTZAL"
      [] target = 17 -> "BGEZAL"
      [] OTHER -> "None"

\* A faulty decoder: coprocessor 0 has CFC and CTC arms like the others.
DecodeCop_control_for_all(z, source) ==
    CASE source = 0 -> "MFCZ"
      [] source = 2 -> "CFCZ"
      [] source = 4 -> "MTCZ"
      [] source = 6 -> "CTCZ"
      [] source \notin {0, 2, 4, 6} /\ source \div 16 = 1 -> "COPZ"
      [] OTHER -> "None"

\* The COPz arms: match source { ... }; coprocessor 0 has no CFC/CTC arm.
DecodeCop(z, source) ==
    CASE source = 0 -> "MFCZ"
      [] source = 2 /\ z # 0 -> "CFCZ"
      [] source = 4 -> "MTCZ"
      [] source = 6 /\ z # 0 -> "CTCZ"
      [] source \notin {0, 2, 4, 6} /\ source \div 16 = 1 -> "COPZ"
      [] OTHER -> "None"

\* match op() { ... }
DecodeName(w) ==
    LET op == w[1] \div 1024
        source == (w[1] \div 32) % 32
        target == w[1] % 32
        special_op == w[2] % 64
    IN  CASE op = 0  -> DecodeSpecial(special_op)
          [] op = 8  -> "ADDI"
          [] op = 9  -> "ADDIU"
          [] op = 12 -> "ANDI"
          [] op = 13 -> "ORI"
          [] op = 14 -> "XORI"
          [] op = 10 -> "SLTI"
          [] op = 11 -> "SLTIU"
          [] op = 4  -> "BEQ"
          [] op = 5  -> "BNE"
          [] op = 6  -> "BLEZ"
          [] op = 7  -> "BGTZ"
          [] op = 1  -> DecodeRegimm(target)
          [] op = 32 -> "LB"
          [] op = 36 -> "LBU"
          [] op = 33 -> "LH"
          [] op = 37 -> "LHU"
          [] op = 35 -> "LW"
          [] op = 34 -> "LWL"
          [] op = 38 -> "LWR"
          [] op = 40 -> "SB"
          [] op = 41 -> "SH"
          [] op = 43 -> "SW"
          [] op = 42 -> "SWL"
          [] op = 46 -> "SWR"
          [] op = 15 -> "LUI"
          [] op = 2  -> "J"
          [] op = 3  -> "JAL"
          [] op \in 16..19 -> DecodeCop(op - 16, source)
          [] op \in 49..51 -> "LWCZ"
          [] op \in 57..59 -> "SWCZ"
          [] OTHER -> "None"

\* A faulty decode: an unrecognised pattern falls back to SLL instead of None.
decode_lenient(w) ==
    IF DecodeName(w) = "None" THEN Instr("SLL", w) ELSE Instr(DecodeName(w), w)

decode(w) ==
    IF DecodeName(w) = "None" THEN NoInstr ELSE Instr(DecodeName(w), w)

(***************************************************************************)
(* Exception codes (src/src/cpu/mod.rs, enum ExceptionCode)                *)
(***************************************************************************)
Interrupt == 0
Syscall == 8
Breakpoint == 9
ReservedInstruction == 10
CoProcUnusable == 11
ArithmeticOverflow == 12

(***************************************************************************)
(* The core.  The operators below take the state of the processor as the   *)
(* record c (the struct MIPSI with the bus and the coprocessors it owns)   *)
(* and return the state the method leaves behind.                          *)
(*                                                                         *)
(*   gp_reg, hi, lo, pc, pc_next, current_instr_addr, branch_delay         *)
(*       the fields of MIPSI (src/src/cpu/mips1/mod.rs:16-42)              *)
(*   bytes, little_endian                                                  *)
(*       the bus: a byte array and Mem32::LITTLE_ENDIAN                    *)
(*   cop0_reg, reports, vectors, irq                                       *)
(*       coprocessor 0: its data registers, the exception reports it has   *)
(*       received during the current step, and the answers it is about to  *)
(*       give to trigger_exception and external_interrupt                  *)
(*   cop                                                                   *)
(*       the slots 1..3 (Option<C1>, Option<C2>, Option<C3>)               *)
(*   clocks, polls                                                         *)
(*       the bus's clock calls and coprocessor 0's external_interrupt      *)
(*       calls of the current step                                         *)
(***************************************************************************)
RegIdx == 0 .. 31

\* MIPSICore::read_gp
read_gp(c, reg) == c.gp_reg[reg]

\* A faulty write_gp: no guard on register 0.
write_gp_unguarded(c, reg, val) ==
    [c EXCEPT !.gp_reg[reg] = val]

\* MIPSICore::write_gp
write_gp(c, reg, val) ==
    IF reg # 0 THEN [c EXCEPT !.gp_reg[reg] = val] ELSE c

read_hi(c) == c.hi
write_hi(c, val) == [c EXCEPT !.hi = val]
read_lo(c) == c.lo
write_lo(c, val) == [c EXCEPT !.lo = val]

\* MIPSICore::link_register
link_register(c, reg) == write_gp(c, reg, c.pc_next)

\* A faulty branch: the offset is applied to pc_next instead of pc.
branch_from_pc_next(c, offset) ==
    [c EXCEPT !.branch_delay = TRUE, !.pc_next = wrapping_add(c.pc_next, offset)]

\* MIPSICore::branch
branch(c, offset) ==
    [c EXCEPT !.branch_delay = TRUE, !.pc_next = wrapping_add(c.pc, offset)]

\* MIPSICore::jump_global
\* A jump_global that keeps the segment of PC_next, as jump_segment does.
jump_global_keeps_segment(c, addr) ==
    [c EXCEPT !.branch_delay = TRUE,
              !.pc_next = Or32(W(And16(c.pc_next[1], 61440), 0), addr)]

jump_global(c, addr) ==
    [c EXCEPT !.branch_delay = TRUE, !.pc_next = addr]

\* A jump_segment that drops the segment of PC_next.
jump_segment_drops_segment(c, segment_addr) ==
    [c EXCEPT !.branch_delay = TRUE, !.pc_next = segment_addr]

\* MIPSICore::jump_segment
jump_segment(c, segment_addr) ==
    LET hi == W(And16(c.pc_next[1], 61440), 0)
    IN  [c EXCEPT !.branch_delay = TRUE, !.pc_next = Or32(hi, segment_addr)]

\* The trait method MIPSICore::jump that j, jal, jr and jalr call has no
\* implementation in the sources; J and JAL keep the segment of PC_next and
\* JR and JALR replace all of it (spec.md, section 4.3, Jumps).
jump_of_j(c, segment_addr) == jump_segment(c, segment_addr)
jump_of_jr(c, addr) == jump_global(c, addr)

\* The Exception record handed to coprocessor 0 (src/src/coproc.rs:38-44)
Exception(code, ret_addr, bad_virtual_addr, bd) ==
    [code |-> code, ret_addr |-> ret_addr,
     bad_virtual_addr |-> bad_virtual_addr, branch_delay |-> bd]

\* Coprocessor0::trigger_exception as the core sees it: the coprocessor takes
\* the report and answers with the vector to jump to.  c.oracle holds the
\* answers it gives to the first and to the second report of a step, and
\* c.vectors the answers given so far.
cop0_trigger_exception(c, exception) ==
    [c EXCEPT !.reports = Append(@, exception),
              !.vectors = Append(@, c.oracle[Len(c.reports) + 1])]

\* A faulty trigger_exception: the vector of the step's first report is
\* kept when a second report follows.
trigger_exception_first_vector(c, exception) ==
    LET report == Exception(exception,
                            IF c.branch_delay
                            THEN wrapping_sub(c.current_instr_addr, U32(4))
                            ELSE c.current_instr_addr,
                            Zero32,
                            c.branch_delay)
        d == cop0_trigger_exception(c, report)
        vector == d.vectors[1]
    IN  [d EXCEPT !.pc = vector, !.pc_next = wrapping_add(vector, U32(4))]

\* MIPSICore::trigger_exception
trigger_exception(c, exception) ==
    LET report == Exception(exception,
                            IF c.branch_delay
                            THEN wrapping_sub(c.current_instr_addr, U32(4))
                            ELSE c.current_instr_addr,
                            Zero32,
                            c.branch_delay)
        d == cop0_trigger_exception(c, report)
        vector == d.vectors[Len(d.vectors)]
    IN  [d EXCEPT !.pc = vector, !.pc_next = wrapping_add(vector, U32(4))]

(***************************************************************************)
(* The bus (src/src/mem/mod.rs, trait Mem32, over the byte array of        *)
(* LittleMemTest).  An address is a word; the array holds MemSize bytes.   *)
(***************************************************************************)
InMem(addr, n) == addr[1] = 0 /\ addr[2] + n <= MemSize

read_byte(c, addr) == c.bytes[addr[2]]

write_byte(c, addr, data) == [c EXCEPT !.bytes[addr[2]] = data]

\* Mem32::read_halfword
read_halfword(c, addr) ==
    LET lo == read_byte(c, addr)
        hi == read_byte(c, wrapping_add(addr, U32(1)))
    IN  IF c.little_endian THEN lo + 256 * hi ELSE 256 * lo + hi

\* A write_halfword that stores the low byte first on either bus.
write_halfword_low_first(c, addr, data) ==
    write_byte(write_byte(c, addr, data % 256),
               wrapping_add(addr, U32(1)), data \div 256)

\* Mem32::write_halfword
write_halfword(c, addr, data) ==
    LET lo == IF c.little_endian THEN data % 256 ELSE data \div 256
        hi == IF c.little_endian THEN data \div 256 ELSE data % 256
    IN  write_byte(write_byte(c, addr, lo), wrapping_add(addr, U32(1)), hi)

\* Mem32::read_word
read_word(c, addr) ==
    LET addr1 == wrapping_add(addr, U32(1))
        addr2 == wrapping_add(addr1, U32(1))
        addr3 == wrapping_add(addr2, U32(1))
        b0 == read_byte(c, addr)
        b1 == read_byte(c, addr1)
        b2 == read_byte(c, addr2)
        b3 == read_byte(c, addr3)
    IN  IF c.little_endian
        THEN W(b2 + 256 * b3, b0 + 256 * b1)
        ELSE W(b1 + 256 * b0, b3 + 256 * b2)

\* Mem32::write_word
write_word(c, addr, data) ==
    LET le == <<data[2] % 256, data[2] \div 256, data[1] % 256, data[1] \div 256>>
        bytes == IF c.little_endian THEN le ELSE <<le[4], le[3], le[2], le[1]>>
        addr1 == wrapping_add(addr, U32(1))
        addr2 == wrapping_add(addr1, U32(1))
        addr3 == wrapping_add(addr2, U32(1))
    IN  write_byte(write_byte(write_byte(write_byte(c, addr, bytes[1]),
                                         addr1, bytes[2]),
                              addr2, bytes[3]),
                   addr3, bytes[4])

(***************************************************************************)
(* 64-bit products and 32-bit quotients on words.                          *)
(***************************************************************************)
\* The product of two 16-bit halves as the pair <<high half, low half>>.
Mul16(x, y) ==
    LET p0 == x * (y % 256)
        p1 == x * (y \div 256)
        t  == p0 + ((p1 % 256) * 256)
    IN  <<(p1 \div 256) + (t \div M16), t % M16>>

\* `(a as u64) * (b as u64)` as the pair <<hi64, lo64>> of words.
MulU64(a, b) ==
    LET p00 == Mul16(a[2], b[2])
        p01 == Mul16(a[2], b[1])
        p10 == Mul16(a[1], b[2])
        p11 == Mul16(a[1], b[1])
        t1  == p00[1] + p01[2] + p10[2]
        t2  == p01[1] + p10[1] + p11[2] + (t1 \div M16)
    IN  <<W((p11[1] + (t2 \div M16)) % M16, t2 % M16), W(t1 % M16, p00[2])>>

IsNeg(a) == a[1] >= M15
Neg32(a) == wrapping_sub(Zero32, a)
Abs32(a) == IF IsNeg(a) THEN Neg32(a) ELSE a

\* Two's complement of the 64-bit value <<hi, lo>>.
Neg64(p) ==
    IF p[2] = Zero32 THEN <<Neg32(p[1]), Zero32>>
    ELSE <<Not32(p[1]), Neg32(p[2])>>

\* `sign_extend_32(a) * sign_extend_32(b)` as <<hi64, lo64>>.
MulS64(a, b) ==
    LET m == MulU64(Abs32(a), Abs32(b))
    IN  IF IsNeg(a) # IsNeg(b) THEN Neg64(m) ELSE m

\* Bit i (0..31) of a word.
Bit32(a, i) == IF i >= 16 THEN (a[1] \div Pow2(i - 16)) % 2 ELSE (a[2] \div Pow2(i)) % 2

\* One step of restoring division: bit i of a enters the remainder.
DivStep(a, b, i, qr) ==
    LET top == qr[2][1] \div M15
        r2  == wrapping_add(Shl32(qr[2], 1), U32(Bit32(a, i)))
        q2  == Shl32(qr[1], 1)
    IN  IF top = 1 \/ ~ULess(r2, b)
        THEN <<wrapping_add(q2, U32(1)), wrapping_sub(r2, b)>>
        ELSE <<q2, r2>>

RECURSIVE DivModU(_, _, _, _)
\* Restoring division of a by b # 0, from bit i down: <<quotient, remainder>>.
DivModU(a, b, i, qr) ==
    IF i < 0 THEN qr
    ELSE CHOOSE res \in {DivModU(a, b, i - 1, nxt) : nxt \in {DivStep(a, b, i, qr)}} : TRUE

\* u32 `/` and `%`, divisor not zero
DivU32(a, b) == DivModU(a, b, 31, <<Zero32, Zero32>>)[1]
RemU32(a, b) == DivModU(a, b, 31, <<Zero32, Zero32>>)[2]

\* i32 `/` and `%` (truncating), divisor not zero and not MIN / -1
DivI32(a, b) ==
    LET q == DivU32(Abs32(a), Abs32(b))
    IN  IF IsNeg(a) # IsNeg(b) THEN Neg32(q) ELSE q
RemI32(a, b) ==
    LET r == RemU32(Abs32(a), Abs32(b))
    IN  IF IsNeg(a) THEN Neg32(r) ELSE r

\* The cases in which Rust's integer division panics.
DivPanics(a, b) == b = Zero32 \/ (a = W(M15, 0) /\ b = W(65535, 65535))

(***************************************************************************)
(* Instruction semantics (src/src/cpu/mips1/instructions.rs, the trait     *)
(* MIPSIInstructions): arithmetic, logic, shifts and conditional sets.     *)
(***************************************************************************)
\* A faulty add: the destination is written before the overflow check.
add_writes_before_trap(c, src_reg, tgt_reg, dst_reg) ==
    LET a == read_gp(c, src_reg)
        b == read_gp(c, tgt_reg)
        w == write_gp(c, dst_reg, wrapping_add(a, b))
    IN  IF IsSome(checked_add(a, b)) THEN w
        ELSE trigger_exception(w, ArithmeticOverflow)

add(c, src_reg, tgt_reg, dst_reg) ==
    LET result == checked_add(read_gp(c, src_reg), read_gp(c, tgt_reg))
    IN  IF IsSome(result)
        THEN write_gp(c, dst_reg, Unwrap(result))
        ELSE trigger_exception(c, ArithmeticOverflow)

addi(c, src_reg, tgt_reg, imm) ==
    LET result == checked_add(read_gp(c, src_reg), sign_extend_16(imm))
    IN  IF IsSome(result)
        THEN write_gp(c, tgt_reg, Unwrap(result))
        ELSE trigger_exception(c, ArithmeticOverflow)

\* A faulty addu: the checked addition of add.
addu_checked(c, src_reg, tgt_reg, dst_reg) ==
    LET result == checked_add(read_gp(c, src_reg), read_gp(c, tgt_reg))
    IN  IF IsSome(result)
        THEN write_gp(c, dst_reg, Unwrap(result))
        ELSE trigger_exception(c, ArithmeticOverflow)

addu(c, src_reg, tgt_reg, dst_reg) ==
    write_gp(c, dst_reg, wrapping_add(read_gp(c, src_reg), read_gp(c, tgt_reg)))

addiu(c, src_reg, tgt_reg, imm) ==
    write_gp(c, tgt_reg, wrapping_add(read_gp(c, src_reg), sign_extend_16(imm)))

sub(c, src_reg, tgt_reg, dst_reg) ==
    LET result == checked_sub(read_gp(c, src_reg), read_gp(c, tgt_reg))
    IN  IF IsSome(result)
        THEN write_gp(c, dst_reg, Unwrap(result))
        ELSE trigger_exception(c, ArithmeticOverflow)

subu(c, src_reg, tgt_reg, dst_reg) ==
    write_gp(c, dst_reg, wrapping_sub(read_gp(c, src_reg), read_gp(c, tgt_reg)))

mult(c, src_reg, tgt_reg) ==
    LET result == MulS64(read_gp(c, src_reg), read_gp(c, tgt_reg))
    IN  write_lo(write_hi(c, result[1]), result[2])

multu(c, src_reg, tgt_reg) ==
    LET result == MulU64(read_gp(c, src_reg), read_gp(c, tgt_reg))
    IN  write_lo(write_hi(c, result[1]), result[2])

div(c, src_reg, tgt_reg) ==
    LET source == read_gp(c, src_reg)
        target == read_gp(c, tgt_reg)
    IN  write_lo(write_hi(c, RemI32(source, target)), DivI32(source, target))

divu(c, src_reg, tgt_reg) ==
    LET source == read_gp(c, src_reg)
        target == read_gp(c, tgt_reg)
    IN  write_lo(write_hi(c, RemU32(source, target)), DivU32(source, target))

mfhi(c, dst_reg) == write_gp(c, dst_reg, read_hi(c))
mthi(c, src_reg) == write_hi(c, read_gp(c, src_reg))
mflo(c, dst_reg) == write_gp(c, dst_reg, read_lo(c))
mtlo(c, src_reg) == write_lo(c, read_gp(c, src_reg))

and(c, src_reg, tgt_reg, dst_reg) ==
    write_gp(c, dst_reg, And32(read_gp(c, src_reg), read_gp(c, tgt_reg)))
andi(c, src_reg, tgt_reg, imm) ==
    write_gp(c, tgt_reg, And32(read_gp(c, src_reg), zero_extend_16(imm)))
or(c, src_reg, tgt_reg, dst_reg) ==
    write_gp(c, dst_reg, Or32(read_gp(c, src_reg), read_gp(c, tgt_reg)))
ori(c, src_reg, tgt_reg, imm) ==
    write_gp(c, tgt_reg, Or32(read_gp(c, src_reg), zero_extend_16(imm)))
xor(c, src_reg, tgt_reg, dst_reg) ==
    write_gp(c, dst_reg, Xor32(read_gp(c, src_reg), read_gp(c, tgt_reg)))
xori(c, src_reg, tgt_reg, imm) ==
    write_gp(c, tgt_reg, Xor32(read_gp(c, src_reg), zero_extend_16(imm)))
nor(c, src_reg, tgt_reg, dst_reg) ==
    write_gp(c, dst_reg, Not32(Or32(read_gp(c, src_reg), read_gp(c, tgt_reg))))

sll(c, tgt_reg, sh_amt, dst_reg) ==
    write_gp(c, dst_reg, Shl32(read_gp(c, tgt_reg), sh_amt))
srl(c, tgt_reg, sh_amt, dst_reg) ==
    write_gp(c, dst_reg, Shr32(read_gp(c, tgt_reg), sh_amt))
sra(c, tgt_reg, sh_amt, dst_reg) ==
    write_gp(c, dst_reg, Sar32(read_gp(c, tgt_reg), sh_amt))
sllv(c, src_reg, tgt_reg, dst_reg) ==
    write_gp(c, dst_reg, Shl32(read_gp(c, tgt_reg), read_gp(c, src_reg)[2] % 32))
srlv(c, src_reg, tgt_reg, dst_reg) ==
    write_gp(c, dst_reg, Shr32(read_gp(c, tgt_reg), read_gp(c, src_reg)[2] % 32))
srav(c, src_reg, tgt_reg, dst_reg) ==
    write_gp(c, dst_reg, Sar32(read_gp(c, tgt_reg), read_gp(c, src_reg)[2] % 32))

Flag(b) == IF b THEN U32(1) ELSE Zero32

slt(c, src_reg, tgt_reg, dst_reg) ==
    write_gp(c, dst_reg, Flag(AsI32(read_gp(c, src_reg)) < AsI32(read_gp(c, tgt_reg))))
sltu(c, src_reg, tgt_reg, dst_reg) ==
    write_gp(c, dst_reg, Flag(ULess(read_gp(c, src_reg), read_gp(c, tgt_reg))))
slti(c, src_reg, tgt_reg, imm) ==
    write_gp(c, tgt_reg, Flag(AsI32(read_gp(c, src_reg)) < AsI32(sign_extend_16(imm))))
\* An sltiu that zero-extends the immediate.
sltiu_zero_extends(c, src_reg, tgt_reg, imm) ==
    write_gp(c, tgt_reg, Flag(ULess(read_gp(c, src_reg), zero_extend_16(imm))))

sltiu(c, src_reg, tgt_reg, imm) ==
    write_gp(c, tgt_reg, Flag(ULess(read_gp(c, src_reg), sign_extend_16(imm))))

(***************************************************************************)
(* Memory access instructions.                                             *)
(***************************************************************************)
\* base + sign-extended offset
EffAddr(c, base_reg, offset) ==
    wrapping_add(read_gp(c, base_reg), sign_extend_16(offset))

\* addr & 0xFFFF_FFFC and addr & 3
WordAddr(addr) == W(addr[1], addr[2] - (addr[2] % 4))
ByteAddr(addr) == addr[2] % 4

lb(c, base_reg, tgt_reg, offset) ==
    write_gp(c, tgt_reg, sign_extend_8(read_byte(c, EffAddr(c, base_reg, offset))))
lbu(c, base_reg, tgt_reg, offset) ==
    write_gp(c, tgt_reg, W(0, read_byte(c, EffAddr(c, base_reg, offset))))
lh(c, base_reg, tgt_reg, offset) ==
    write_gp(c, tgt_reg, sign_extend_16(read_halfword(c, EffAddr(c, base_reg, offset))))
lhu(c, base_reg, tgt_reg, offset) ==
    write_gp(c, tgt_reg, zero_extend_16(read_halfword(c, EffAddr(c, base_reg, offset))))
lw(c, base_reg, tgt_reg, offset) ==
    write_gp(c, tgt_reg, read_word(c, EffAddr(c, base_reg, offset)))

\* match byte_offset { 0 => 0, 1 => 0xFFFF_FFFF >> 24, 2 => 0xFFFF_FFFF >> 16,
\* 3 => 0xFFFF_FFFF >> 8 } of lwl and swr
LowMask(byte_offset) ==
    CASE byte_offset = 0 -> Zero32
      [] byte_offset = 1 -> Shr32(W(65535, 65535), 24)
      [] byte_offset = 2 -> Shr32(W(65535, 65535), 16)
      [] byte_offset = 3 -> Shr32(W(65535, 65535), 8)

\* match byte_offset { 0 => 0, 1 => 0xFFFF_FFFF << 24, 2 => 0xFFFF_FFFF << 16,
\* 3 => 0xFFFF_FFFF << 8 } of lwr and swl
HighMask(byte_offset) ==
    CASE byte_offset = 0 -> Zero32
      [] byte_offset = 1 -> Shl32(W(65535, 65535), 24)
      [] byte_offset = 2 -> Shl32(W(65535, 65535), 16)
      [] byte_offset = 3 -> Shl32(W(65535, 65535), 8)

\* An lwl that takes the byte offset of a big-endian bus on either bus.
lwl_big_endian_only(c, base_reg, tgt_reg, offset) ==
    LET addr == EffAddr(c, base_reg, offset)
        byte_offset == ByteAddr(addr)
        word == read_word(c, WordAddr(addr))
        old_word == And32(LowMask(byte_offset), read_gp(c, tgt_reg))
    IN  write_gp(c, tgt_reg, Or32(old_word, Shl32(word, byte_offset * 8)))

lwl(c, base_reg, tgt_reg, offset) ==
    LET addr == EffAddr(c, base_reg, offset)
        byte_addr == ByteAddr(addr)
        byte_offset == IF c.little_endian THEN 3 - byte_addr ELSE byte_addr
        word == read_word(c, WordAddr(addr))
        old_word == And32(LowMask(byte_offset), read_gp(c, tgt_reg))
    IN  write_gp(c, tgt_reg, Or32(old_word, Shl32(word, byte_offset * 8)))

\* A faulty LWR: the bytes of rt it does not load are cleared.
lwr_clears_target(c, base_reg, tgt_reg, offset) ==
    LET addr == EffAddr(c, base_reg, offset)
        byte_addr == ByteAddr(addr)
        byte_offset == IF c.little_endian THEN byte_addr ELSE 3 - byte_addr
        word == read_word(c, WordAddr(addr))
    IN  write_gp(c, tgt_reg, Shr32(word, byte_offset * 8))

lwr(c, base_reg, tgt_reg, offset) ==
    LET addr == EffAddr(c, base_reg, offset)
        byte_addr == ByteAddr(addr)
        byte_offset == IF c.little_endian THEN byte_addr ELSE 3 - byte_addr
        word == read_word(c, WordAddr(addr))
        old_word == And32(HighMask(byte_offset), read_gp(c, tgt_reg))
    IN  write_gp(c, tgt_reg, Or32(old_word, Shr32(word, byte_offset * 8)))

sb(c, base_reg, tgt_reg, offset) ==
    write_byte(c, EffAddr(c, base_reg, offset), read_gp(c, tgt_reg)[2] % 256)
sh(c, base_reg, tgt_reg, offset) ==
    write_halfword(c, EffAddr(c, base_reg, offset), read_gp(c, tgt_reg)[2])
sw(c, base_reg, tgt_reg, offset) ==
    write_word(c, EffAddr(c, base_reg, offset), read_gp(c, tgt_reg))

swl(c, base_reg, tgt_reg, offset) ==
    LET addr == EffAddr(c, base_reg, offset)
        byte_addr == ByteAddr(addr)
        byte_offset == IF c.little_endian THEN 3 - byte_addr ELSE byte_addr
        word == read_gp(c, tgt_reg)
        old_word == And32(HighMask(byte_offset), read_word(c, WordAddr(addr)))
    IN  write_word(c, WordAddr(addr), Or32(old_word, Shr32(word, byte_offset * 8)))

\* A faulty SWR: the whole aligned word is overwritten.
swr_overwrites_word(c, base_reg, tgt_reg, offset) ==
    LET addr == EffAddr(c, base_reg, offset)
        byte_addr == ByteAddr(addr)
        byte_offset == IF c.little_endian THEN byte_addr ELSE 3 - byte_addr
        word == read_gp(c, tgt_reg)
    IN  write_word(c, WordAddr(addr), Shl32(word, byte_offset * 8))

swr(c, base_reg, tgt_reg, offset) ==
    LET addr == EffAddr(c, base_reg, offset)
        byte_addr == ByteAddr(addr)
        byte_offset == IF c.little_endian THEN byte_addr ELSE 3 - byte_addr
        word == read_gp(c, tgt_reg)
        old_word == And32(LowMask(byte_offset), read_word(c, WordAddr(addr)))
    IN  write_word(c, WordAddr(addr), Or32(old_word, Shl32(word, byte_offset * 8)))

lui(c, tgt_reg, imm) == write_gp(c, tgt_reg, W(imm, 0))

(***************************************************************************)
(* Branches, jumps and system instructions.                                *)
(***************************************************************************)
\* sign_extend_16(offset) << 2
BranchOffset(offset) == Shl32(sign_extend_16(offset), 2)

beq(c, src_reg, tgt_reg, offset) ==
    IF read_gp(c, src_reg) = read_gp(c, tgt_reg)
    THEN branch(c, BranchOffset(offset)) ELSE c
bne(c, src_reg, tgt_reg, offset) ==
    IF read_gp(c, src_reg) # read_gp(c, tgt_reg)
    THEN branch(c, BranchOffset(offset)) ELSE c
bgtz(c, src_reg, offset) ==
    IF AsI32(read_gp(c, src_reg)) > 0 THEN branch(c, BranchOffset(offset)) ELSE c
bgez(c, src_reg, offset) ==
    IF AsI32(read_gp(c, src_reg)) >= 0 THEN branch(c, BranchOffset(offset)) ELSE c
bltz(c, src_reg, offset) ==
    IF AsI32(read_gp(c, src_reg)) < 0 THEN branch(c, BranchOffset(offset)) ELSE c
blez(c, src_reg, offset) ==
    IF AsI32(read_gp(c, src_reg)) <= 0 THEN branch(c, BranchOffset(offset)) ELSE c
\* A bgezal that links only when the branch is taken.
bgezal_links_if_taken(c, src_reg, offset) ==
    IF AsI32(read_gp(c, src_reg)) >= 0
    THEN branch(link_register(c, 31), BranchOffset(offset))
    ELSE c

bgezal(c, src_reg, offset) ==
    LET l == link_register(c, 31)
    IN  IF AsI32(read_gp(l, src_reg)) >= 0 THEN branch(l, BranchOffset(offset)) ELSE l
bltzal(c, src_reg, offset) ==
    LET l == link_register(c, 31)
    IN  IF AsI32(read_gp(l, src_reg)) < 0 THEN branch(l, BranchOffset(offset)) ELSE l

\* target << 2, for a 26-bit target
j(c, target) == jump_of_j(c, U32(target * 4))
jal(c, target) == jump_of_j(link_register(c, 31), U32(target * 4))
jr(c, src_reg) == jump_of_jr(c, read_gp(c, src_reg))
\* A faulty JALR: the source register is read before the link is written.
jalr_reads_before_link(c, src_reg, dst_reg) ==
    LET dest == read_gp(c, src_reg)
    IN  jump_of_jr(link_register(c, dst_reg), dest)

jalr(c, src_reg, dst_reg) ==
    LET l == link_register(c, dst_reg)
    IN  jump_of_jr(l, read_gp(l, src_reg))

\* A faulty SYSCALL: the exception is reported under Interrupt's code.
syscall_reports_interrupt(c) == trigger_exception(c, Interrupt)

syscall(c) == trigger_exception(c, Syscall)
brk(c) == trigger_exception(c, Breakpoint)

(***************************************************************************)
(* Coprocessors.  Slot 0 is always there; slot z in 1..3 is c.cop[z], with *)
(* present = FALSE for an empty slot (None).  A coprocessor in a slot      *)
(* behaves as TestCoproc (src/src/cpu/mips1/mips1_test.rs:76-113): 32 data *)
(* and 32 control registers.  cop_calls lists the methods the core has     *)
(* invoked on the coprocessors during the current step.                    *)
(***************************************************************************)
Call(z, method, reg, val) == [z |-> z, method |-> method, reg |-> reg, val |-> val]

\* Coprocessor0::move_to_reg / move_from_reg / operation (TestCoproc0)
cop0_move_to_reg(c, reg, val) ==
    [c EXCEPT !.cop0_reg[reg] = val,
              !.cop_calls = Append(@, Call(0, "move_to_reg", reg, val))]
cop0_move_from_reg(c, reg) ==
    [c EXCEPT !.cop_calls = Append(@, Call(0, "move_from_reg", reg, Zero32))]
cop0_operation(c, op) ==
    [c EXCEPT !.cop_calls = Append(@, Call(0, "operation", 0, U32(op)))]

\* Coprocessor::move_to_reg / move_from_reg / move_to_control /
\* move_from_control / operation (TestCoproc)
cop_move_to_reg(c, z, reg, val) ==
    [c EXCEPT !.cop[z].data_reg[reg] = val,
              !.cop_calls = Append(@, Call(z, "move_to_reg", reg, val))]
cop_move_from_reg(c, z, reg) ==
    [c EXCEPT !.cop_calls = Append(@, Call(z, "move_from_reg", reg, Zero32))]
cop_move_to_control(c, z, reg, val) ==
    [c EXCEPT !.cop[z].control_reg[reg] = val,
              !.cop_calls = Append(@, Call(z, "move_to_control", reg, val))]
cop_move_from_control(c, z, reg) ==
    [c EXCEPT !.cop_calls = Append(@, Call(z, "move_from_control", reg, Zero32))]
cop_operation(c, z, op) ==
    LET d == c.cop[z].data_reg
        done == CASE op = 1 -> [d EXCEPT ![3] = wrapping_add(d[1], d[2])]
                  [] op = 2 -> [d EXCEPT ![6] = MulU64(d[4], d[5])[2]]
                  [] OTHER -> d
    IN  [c EXCEPT !.cop[z].data_reg = done,
                  !.cop_calls = Append(@, Call(z, "operation", 0, U32(op)))]

\* MIPSICore::coproc_1 / coproc_2 / coproc_3 return Some
HasCoproc(c, z) == c.cop[z].present

\* An mtcz that passes the register number instead of the register's value.
mtcz_passes_index(c, coproc, tgt_reg, cop_reg) ==
    LET val == U32(tgt_reg)
    IN  IF coproc = 0 THEN cop0_move_to_reg(c, cop_reg, val)
        ELSE IF HasCoproc(c, coproc) THEN cop_move_to_reg(c, coproc, cop_reg, val)
        ELSE trigger_exception(c, CoProcUnusable)

mtcz(c, coproc, tgt_reg, cop_reg) ==
    LET val == read_gp(c, tgt_reg)
    IN  IF coproc = 0 THEN cop0_move_to_reg(c, cop_reg, val)
        ELSE IF HasCoproc(c, coproc) THEN cop_move_to_reg(c, coproc, cop_reg, val)
        ELSE trigger_exception(c, CoProcUnusable)

\* An mfcz that clears the target register before it finds the coprocessor
\* missing.
mfcz_clears_target(c, coproc, tgt_reg, cop_reg) ==
    IF coproc = 0
    THEN write_gp(cop0_move_from_reg(c, cop_reg), tgt_reg, c.cop0_reg[cop_reg])
    ELSE IF HasCoproc(c, coproc)
    THEN write_gp(cop_move_from_reg(c, coproc, cop_reg), tgt_reg,
                  c.cop[coproc].data_reg[cop_reg])
    ELSE trigger_exception(write_gp(c, tgt_reg, Zero32), CoProcUnusable)

mfcz(c, coproc, tgt_reg, cop_reg) ==
    IF coproc = 0
    THEN write_gp(cop0_move_from_reg(c, cop_reg), tgt_reg, c.cop0_reg[cop_reg])
    ELSE IF HasCoproc(c, coproc)
    THEN write_gp(cop_move_from_reg(c, coproc, cop_reg), tgt_reg,
                  c.cop[coproc].data_reg[cop_reg])
    ELSE trigger_exception(c, CoProcUnusable)

\* A host-level failure: the thread panics and step() does not return.
Panic(c) == [c EXCEPT !.failure = TRUE]

\* ctcz, cfcz, lwcz and swcz: Coproc::_0 => unreachable!(), a panic.
ctcz(c, coproc, tgt_reg, ctrl_reg) ==
    LET val == read_gp(c, tgt_reg)
    IN  IF coproc = 0 THEN Panic(c)
        ELSE IF HasCoproc(c, coproc)
        THEN cop_move_to_control(c, coproc, ctrl_reg, val)
        ELSE trigger_exception(c, CoProcUnusable)

cfcz(c, coproc, tgt_reg, ctrl_reg) ==
    IF coproc = 0 THEN Panic(c)
    ELSE IF HasCoproc(c, coproc)
    THEN write_gp(cop_move_from_control(c, coproc, ctrl_reg), tgt_reg,
                  c.cop[coproc].control_reg[ctrl_reg])
    ELSE trigger_exception(c, CoProcUnusable)

lwcz(c, coproc, base_reg, cop_reg, offset) ==
    LET data == read_word(c, EffAddr(c, base_reg, offset))
    IN  IF coproc = 0 THEN Panic(c)
        ELSE IF HasCoproc(c, coproc)
        THEN cop_move_to_reg(c, coproc, cop_reg, data)
        ELSE trigger_exception(c, CoProcUnusable)

swcz(c, coproc, base_reg, cop_reg, offset) ==
    IF coproc = 0 THEN Panic(c)
    ELSE IF HasCoproc(c, coproc)
    THEN write_word(cop_move_from_reg(c, coproc, cop_reg),
                    EffAddr(c, base_reg, offset), c.cop[coproc].data_reg[cop_reg])
    ELSE trigger_exception(c, CoProcUnusable)

\* A copz that passes only the low 16 bits of cofun.
copz_low_half(c, coproc, cofun) ==
    IF coproc = 0 THEN cop0_operation(c, cofun % M16)
    ELSE IF HasCoproc(c, coproc) THEN cop_operation(c, coproc, cofun % M16)
    ELSE trigger_exception(c, CoProcUnusable)

copz(c, coproc, cofun) ==
    IF coproc = 0 THEN cop0_operation(c, cofun)
    ELSE IF HasCoproc(c, coproc) THEN cop_operation(c, coproc, cofun)
    ELSE trigger_exception(c, CoProcUnusable)

(***************************************************************************)
(* The step loop (src/src/cpu/mips1/instructions.rs, MIPSCore::step).      *)
(***************************************************************************)
\* The match of step(): one arm per variant of MIPSIInstruction.
exec(c, i) ==
    CASE i.op = "ADD"     -> add(c, i.source, i.target, i.dest)
      [] i.op = "ADDU"    -> addu(c, i.source, i.target, i.dest)
      [] i.op = "SUB"     -> sub(c, i.source, i.target, i.dest)
      [] i.op = "SUBU"    -> subu(c, i.source, i.target, i.dest)
      [] i.op = "MULT"    -> mult(c, i.source, i.target)
      [] i.op = "MULTU"   -> multu(c, i.source, i.target)
      [] i.op = "DIV"     -> div(c, i.source, i.target)
      [] i.op = "DIVU"    -> divu(c, i.source, i.target)
      [] i.op = "MFHI"    -> mfhi(c, i.dest)
      [] i.op = "MFLO"    -> mflo(c, i.dest)
      [] i.op = "MTHI"    -> mthi(c, i.source)
      [] i.op = "MTLO"    -> mtlo(c, i.source)
      [] i.op = "AND"     -> and(c, i.source, i.target, i.dest)
      [] i.op = "OR"      -> or(c, i.source, i.target, i.dest)
      [] i.op = "XOR"     -> xor(c, i.source, i.target, i.dest)
      [] i.op = "NOR"     -> nor(c, i.source, i.target, i.dest)
      [] i.op = "SLL"     -> sll(c, i.target, i.shift_amt, i.dest)
      [] i.op = "SLLV"    -> sllv(c, i.source, i.target, i.dest)
      [] i.op = "SRL"     -> srl(c, i.target, i.shift_amt, i.dest)
      [] i.op = "SRLV"    -> srlv(c, i.source, i.target, i.dest)
      [] i.op = "SRA"     -> sra(c, i.target, i.shift_amt, i.dest)
      [] i.op = "SRAV"    -> srav(c, i.source, i.target, i.dest)
      [] i.op = "SLT"     -> slt(c, i.source, i.target, i.dest)
      [] i.op = "SLTU"    -> sltu(c, i.source, i.target, i.dest)
      [] i.op = "JR"      -> jr(c, i.source)
      [] i.op = "JALR"    -> jalr(c, i.source, i.dest)
      [] i.op = "SYSCALL" -> syscall(c)
      [] i.op = "BRK"     -> brk(c)
      [] i.op = "ADDI"    -> addi(c, i.source, i.target, i.imm)
      [] i.op = "ADDIU"   -> addiu(c, i.source, i.target, i.imm)
      [] i.op = "ANDI"    -> andi(c, i.source, i.target, i.imm)
      [] i.op = "ORI"     -> ori(c, i.source, i.target, i.imm)
      [] i.op = "XORI"    -> xori(c, i.source, i.target, i.imm)
      [] i.op = "SLTI"    -> slti(c, i.source, i.target, i.imm)
      [] i.op = "SLTIU"   -> sltiu(c, i.source, i.target, i.imm)
      [] i.op = "BEQ"     -> beq(c, i.source, i.target, i.imm)
      [] i.op = "BNE"     -> bne(c, i.source, i.target, i.imm)
      [] i.op = "BLEZ"    -> blez(c, i.source, i.imm)
      [] i.op = "BGTZ"    -> bgtz(c, i.source, i.imm)
      [] i.op = "BLTZ"    -> bltz(c, i.source, i.imm)
      [] i.op = "BGEZ"    -> bgez(c, i.source, i.imm)
      [] i.op = "BLTZAL"  -> bltzal(c, i.source, i.imm)
      [] i.op = "BGEZAL"  -> bgezal(c, i.source, i.imm)
      [] i.op = "LB"      -> lb(c, i.source, i.target, i.imm)
      [] i.op = "LBU"     -> lbu(c, i.source, i.target, i.imm)
      [] i.op = "LH"      -> lh(c, i.source, i.target, i.imm)
      [] i.op = "LHU"     -> lhu(c, i.source, i.target, i.imm)
      [] i.op = "LW"      -> lw(c, i.source, i.target, i.imm)
      [] i.op = "LWL"     -> lwl(c, i.source, i.target, i.imm)
      [] i.op = "LWR"     -> lwr(c, i.source, i.target, i.imm)
      [] i.op = "SB"      -> sb(c, i.source, i.target, i.imm)
      [] i.op = "SH"      -> sh(c, i.source, i.target, i.imm)
      [] i.op = "SW"      -> sw(c, i.source, i.target, i.imm)
      [] i.op = "SWL"     -> swl(c, i.source, i.target, i.imm)
      [] i.op = "SWR"     -> swr(c, i.source, i.target, i.imm)
      [] i.op = "LUI"     -> lui(c, i.target, i.imm)
      [] i.op = "J"       -> j(c, i.addr)
      [] i.op = "JAL"     -> jal(c, i.addr)
      [] i.op = "MFCZ"    -> mfcz(c, i.coproc, i.target, i.dest)
      [] i.op = "MTCZ"    -> mtcz(c, i.coproc, i.target, i.dest)
      [] i.op = "CFCZ"    -> cfcz(c, i.coproc, i.target, i.dest)
      [] i.op = "CTCZ"    -> ctcz(c, i.coproc, i.target, i.dest)
      [] i.op = "COPZ"    -> copz(c, i.coproc, i.fun)
      [] i.op = "LWCZ"    -> lwcz(c, i.coproc, i.source, i.target, i.imm)
      [] i.op = "SWCZ"    -> swcz(c, i.coproc, i.source, i.target, i.imm)

\* The host-level failures (panics) of one instruction: an integer division
\* that Rust refuses, or an access outside the byte array of the bus.
ExecPanics(c, i) ==
    LET addr == EffAddr(c, i.source, i.imm)
    IN  CASE i.op = "DIV"  -> DivPanics(read_gp(c, i.source), read_gp(c, i.target))
          [] i.op = "DIVU" -> read_gp(c, i.target) = Zero32
          [] i.op \in {"LB", "LBU", "SB"} -> ~InMem(addr, 1)
          [] i.op \in {"LH", "LHU", "SH"} -> ~InMem(addr, 2)
          [] i.op \in {"LW", "SW", "LWCZ"} -> ~InMem(addr, 4)
          [] i.op \in {"LWL", "LWR", "SWL", "SWR"} -> ~InMem(WordAddr(addr), 4)
          [] i.op = "SWCZ" -> HasCoproc(c, i.coproc) /\ ~InMem(addr, 4)
          [] OTHER -> FALSE

\* A faulty fetch: pc advances by 4 instead of taking pc_next.
Fetch_sequential(c) ==
    LET c1 == [c EXCEPT !.current_instr_addr = c.pc]
    IN  [c1 EXCEPT !.instr_bits = read_word(c1, c1.current_instr_addr),
                   !.pc = wrapping_add(c1.pc, U32(4)),
                   !.pc_next = wrapping_add(c1.pc_next, U32(4))]

\* self.current_instr_addr = self.pc; fetch; self.pc = self.pc_next;
\* self.pc_next = self.pc_next.wrapping_add(4)
Fetch(c) ==
    LET c1 == [c EXCEPT !.current_instr_addr = c.pc]
    IN  [c1 EXCEPT !.instr_bits = read_word(c1, c1.current_instr_addr),
                   !.pc = c1.pc_next,
                   !.pc_next = wrapping_add(c1.pc_next, U32(4))]

\* if let Some(instr) = decode(instr_bits) { match ... } else { trigger_exception }
Execute(c) ==
    LET instr == decode(c.instr_bits)
    IN  IF instr # NoInstr
        THEN (IF ExecPanics(c, instr) THEN Panic(c) ELSE exec(c, instr))
        ELSE trigger_exception(c, ReservedInstruction)

\* A poll that is skipped when the instruction has already raised an
\* exception in this step.
Poll_skips_after_trap(c) ==
    IF c.reports # <<>> THEN c
    ELSE LET c1 == [c EXCEPT !.clocks = @ + 1, !.polls = @ + 1]
         IN  IF c1.irq THEN trigger_exception(c1, Interrupt) ELSE c1

\* let int = self.mem.clock(cycles);
\* if self.coproc0.external_interrupt(int) { trigger_exception(Interrupt) }
Poll(c) ==
    LET c1 == [c EXCEPT !.clocks = @ + 1, !.polls = @ + 1]
    IN  IF c1.irq THEN trigger_exception(c1, Interrupt) ELSE c1

\* MIPSCore::step
step(c) ==
    IF ~InMem(c.pc, 4) THEN Panic([c EXCEPT !.current_instr_addr = c.pc])
    ELSE LET e == Execute(Fetch(c))
         IN  IF e.failure THEN e ELSE Poll(e)

\* A reset that sets PC only.
reset_pc_only(c, addr) == [c EXCEPT !.pc = addr]

\* MIPSCore::reset: coprocessor 0 answers with the reset vector addr.
reset(c, addr) ==
    [c EXCEPT !.pc = addr, !.pc_next = wrapping_add(addr, U32(4))]

(***************************************************************************)
(* Test programs: instruction words as the tests encode them               *)
(* (src/src/cpu/mips1/mips1_test.rs, make_i_instr).                        *)
(***************************************************************************)
make_i_instr(instr, src, tgt, imm) == W(instr * 1024 + src * 32 + tgt, imm)
make_r_instr(src, tgt, dst, sa, funct) == W(src * 32 + tgt, dst * 2048 + sa * 64 + funct)
make_j_instr(instr, target) == W(instr * 1024 + (target \div M16), target % M16)

NOP == Zero32
SYSCALL_W == make_r_instr(0, 0, 0, 0, 12)
BREAK_W == make_r_instr(0, 0, 0, 0, 13)

\* The bytes of a word in the order write_word stores them.
WordBytes(le, w) ==
    LET l == <<w[2] % 256, w[2] \div 256, w[1] % 256, w[1] \div 256>>
    IN  IF le THEN l ELSE <<l[4], l[3], l[2], l[1]>>

\* The byte array after write_word(4 * (k - 1), words[k]) for every k,
\* everything else zero (LittleMemTest::new).
LoadProgram(le, words) ==
    [a \in 0 .. (MemSize - 1) |->
        IF (a \div 4) + 1 <= Len(words)
        THEN WordBytes(le, words[(a \div 4) + 1])[(a % 4) + 1]
        ELSE 0]

\* Encodings of the instructions the programs use.
BEQ_W(rs, rt, imm) == make_i_instr(4, rs, rt, imm)
BNE_W(rs, rt, imm) == make_i_instr(5, rs, rt, imm)
BLEZ_W(rs, imm) == make_i_instr(6, rs, 0, imm)
BGTZ_W(rs, imm) == make_i_instr(7, rs, 0, imm)
BLTZ_W(rs, imm) == make_i_instr(1, rs, 0, imm)
BGEZ_W(rs, imm) == make_i_instr(1, rs, 1, imm)
BLTZAL_W(rs, imm) == make_i_instr(1, rs, 16, imm)
BGEZAL_W(rs, imm) == make_i_instr(1, rs, 17, imm)
ADDI_W(rs, rt, imm) == make_i_instr(8, rs, rt, imm)
ADDIU_W(rs, rt, imm) == make_i_instr(9, rs, rt, imm)
ORI_W(rs, rt, imm) == make_i_instr(13, rs, rt, imm)
LUI_W(rt, imm) == make_i_instr(15, 0, rt, imm)
LW_W(rs, rt, imm) == make_i_instr(35, rs, rt, imm)
SW_W(rs, rt, imm) == make_i_instr(43, rs, rt, imm)
ADD_W(rs, rt, rd) == make_r_instr(rs, rt, rd, 0, 32)
ADDU_W(rs, rt, rd) == make_r_instr(rs, rt, rd, 0, 33)
SUB_W(rs, rt, rd) == make_r_instr(rs, rt, rd, 0, 34)
SUBU_W(rs, rt, rd) == make_r_instr(rs, rt, rd, 0, 35)
MULT_W(rs, rt) == make_r_instr(rs, rt, 0, 0, 24)
DIV_W(rs, rt) == make_r_instr(rs, rt, 0, 0, 26)
MFLO_W(rd) == make_r_instr(0, 0, rd, 0, 18)
MTHI_W(rs) == make_r_instr(rs, 0, 0, 0, 17)
MTLO_W(rs) == make_r_instr(rs, 0, 0, 0, 19)
JR_W(rs) == make_r_instr(rs, 0, 0, 0, 8)
JALR_W(rs, rd) == make_r_instr(rs, 0, rd, 0, 9)
J_W(target) == make_j_instr(2, target)
JAL_W(target) == make_j_instr(3, target)
make_cop_instr(z, rs, rt, rd) == W((16 + z) * 1024 + rs * 32 + rt, rd * 2048)
MFC_W(z, rt, rd) == make_cop_instr(z, 0, rt, rd)
CFC_W(z, rt, rd) == make_cop_instr(z, 2, rt, rd)
MTC_W(z, rt, rd) == make_cop_instr(z, 4, rt, rd)
COP_W(z, cofun) == W((16 + z) * 1024 + 512 + (cofun \div M16), cofun % M16)

\* A program: 12 words, loaded from address 0.  The words at 32 and 40 are
\* where the exception vectors of the model point, the word at 16 is where
\* its second reset vector points.
Prog(first, at16, at32, at40) ==
    LET pad(ws, n) == ws \o [k \in 1 .. (n - Len(ws)) |-> NOP]
    IN  pad(first, 4) \o pad(at16, 4) \o pad(at32, 2) \o pad(at40, 2)

BranchProg == Prog(<<BEQ_W(1, 0, 2), ADDI_W(3, 3, 291), ADDI_W(4, 4, 291), ADDI_W(4, 4, 1110)>>,
                   <<BGTZ_W(1, 65533)>>, <<>>, <<>>)
DelayTrapProg == Prog(<<BNE_W(1, 0, 3), SYSCALL_W, NOP, BLEZ_W(1, 1)>>,
                      <<ADD_W(1, 1, 3)>>, <<BREAK_W>>, <<BLTZ_W(1, 1)>>)
DelayBranchProg == Prog(<<BEQ_W(0, 0, 3), BEQ_W(0, 0, 1), NOP, NOP>>,
                        <<ADDIU_W(0, 2, 7), ORI_W(2, 3, 8)>>, <<>>, <<>>)
JumpProg == Prog(<<JAL_W(3), ORI_W(0, 1, 20), NOP, JR_W(31)>>,
                 <<J_W(1)>>, <<>>, <<>>)
LinkZeroProg == Prog(<<JALR_W(1, 0), LW_W(0, 0, 4), JALR_W(1, 1), BGEZAL_W(1, 2)>>,
                     <<BLTZAL_W(1, 2), ADDIU_W(31, 2, 0)>>, <<>>, <<>>)
LinkReadProg == Prog(<<LUI_W(31, 32768), BGEZAL_W(31, 2), NOP, JALR_W(1, 1)>>,
                     <<JALR_W(1, 1), NOP>>, <<BLTZAL_W(31, 1)>>,
                     <<BEQ_W(0, 0, 0), JALR_W(1, 1)>>)
LinkDelayProg == Prog(<<BEQ_W(0, 0, 3), BLTZAL_W(1, 1), NOP, BLTZAL_W(1, 1)>>,
                      <<BGEZAL_W(1, 2)>>, <<>>, <<>>)
\* Jumps executed while PC_next lies in the segment 0x8000_0000: the delay
\* slot of a JR / JALR to 0x8000_0000 holds a JAL (from 0) or a JR (from 16).
SegmentProg == Prog(<<LUI_W(1, 32768), JR_W(1), JAL_W(5), NOP>>,
                    <<LUI_W(1, 32768), JALR_W(1, 2), JR_W(0)>>, <<>>, <<>>)
OverflowProg == Prog(<<LUI_W(1, 32767), ORI_W(1, 1, 65535), ADDI_W(1, 2, 1), ADD_W(2, 2, 3)>>,
                     <<>>, <<ADD_W(2, 2, 3)>>, <<>>)
WrapProg == Prog(<<ADDIU_W(0, 1, 65535), ADDU_W(1, 1, 2), SUB_W(0, 1, 3), SUBU_W(0, 1, 3)>>,
                 <<ADDI_W(1, 2, 65535)>>, <<>>, <<>>)
ReservedProg == Prog(<<W(64512, 0), make_r_instr(1, 2, 3, 0, 1), make_i_instr(1, 1, 2, 5),
                       CFC_W(0, 1, 0)>>,
                     <<make_cop_instr(1, 8, 1, 1)>>, <<W(64512, 0)>>, <<>>)
MulDivProg == Prog(<<ADDIU_W(0, 1, 7), MULT_W(1, 1), MFLO_W(2), DIV_W(2, 1)>>,
                   <<DIV_W(1, 0)>>, <<>>, <<>>)
CopProg == Prog(<<MTC_W(1, 1, 1), COP_W(1, 1), MFC_W(1, 2, 1), CFC_W(2, 1, 1)>>,
                <<MTC_W(0, 1, 12), MFC_W(0, 2, 12)>>, <<>>, <<>>)
MemProg == Prog(<<SW_W(0, 1, 44), LW_W(0, 2, 44), LW_W(1, 2, 0), SW_W(1, 2, 0)>>,
                <<>>, <<>>, <<>>)

\* How a processor is built: the program in memory, the endianness of the
\* bus and the slots 1..3 that hold a coprocessor (MIPSIBuilder).
Setup(words, le, present) == [words |-> words, le |-> le, present |-> present]
OnlyCop1 == {1}
Setups ==
    {Setup(p, TRUE, OnlyCop1) :
        p \in {BranchProg, DelayTrapProg, DelayBranchProg, JumpProg, LinkZeroProg,
               LinkDelayProg, LinkReadProg, SegmentProg, OverflowProg, WrapProg, ReservedProg, MulDivProg, CopProg, MemProg}}
    \cup {Setup(BranchProg, FALSE, {}), Setup(MemProg, FALSE, {1, 2, 3}),
          Setup(CopProg, FALSE, {})}

\* The answers of coprocessor 0: exception vectors and reset vectors.
Vectors == {W(0, 32), W(0, 40)}
Oracles == {<<W(0, 32), W(0, 40)>>, <<W(0, 40), W(0, 32)>>}
ResetVectors == {W(0, 16)}

\* The values and registers the embedder passes to write_gp.
WriteRegs == {0, 1}
WriteVals == {U32(1), W(65535, 65535)}

(***************************************************************************)
(* State                                                                   *)
(***************************************************************************)
VARIABLES
    gp_reg, hi, lo, pc, pc_next, current_instr_addr, branch_delay,  \* MIPSI
    bytes, little_endian,          \* the bus
    cop0_reg, cop,                 \* coprocessor 0's registers; slots 1..3
    failure,                       \* a panic has ended the program
    instr_bits,                    \* the word the last step() fetched
    reports, vectors, irq,         \* what coprocessor 0 received and answered
    cop_calls, clocks, polls,      \*   during the last step()
    hist,                          \* the last steps: what each executed
    steps, writes, resets, irqs    \* calls made so far

core_vars == <<gp_reg, hi, lo, pc, pc_next, current_instr_addr, branch_delay>>
vars == <<gp_reg, hi, lo, pc, pc_next, current_instr_addr, branch_delay,
          bytes, little_endian, cop0_reg, cop, failure, instr_bits,
          reports, vectors, irq, cop_calls, clocks, polls,
          hist, steps, writes, resets, irqs>>

ZeroRegs == [r \in RegIdx |-> Zero32]

\* The processor as the record the operators above work on, at the start
\* of a step() in which coprocessor 0 will answer external_interrupt with i
\* and its reports with the vectors o.
Cpu(o, i) ==
    [gp_reg |-> gp_reg, hi |-> hi, lo |-> lo, pc |-> pc, pc_next |-> pc_next,
     current_instr_addr |-> current_instr_addr, branch_delay |-> branch_delay,
     bytes |-> bytes, little_endian |-> little_endian,
     cop0_reg |-> cop0_reg, cop |-> cop, failure |-> failure,
     instr_bits |-> instr_bits,
     reports |-> <<>>, vectors |-> <<>>, irq |-> i, oracle |-> o,
     cop_calls |-> <<>>, clocks |-> 0, polls |-> 0]

\* Whether the instruction i, executed in state c (after the fetch), is a
\* jump or a branch whose condition holds.
Taken(c, i) ==
    CASE i.op \in {"J", "JAL", "JR", "JALR"} -> TRUE
      [] i.op = "BEQ"  -> read_gp(c, i.source) = read_gp(c, i.target)
      [] i.op = "BNE"  -> read_gp(c, i.source) # read_gp(c, i.target)
      [] i.op = "BGTZ" -> AsI32(read_gp(c, i.source)) > 0
      [] i.op = "BLEZ" -> AsI32(read_gp(c, i.source)) <= 0
      [] i.op = "BGEZ" -> AsI32(read_gp(c, i.source)) >= 0
      [] i.op = "BLTZ" -> AsI32(read_gp(c, i.source)) < 0
      [] i.op = "BGEZAL" -> AsI32(read_gp(link_register(c, 31), i.source)) >= 0
      [] i.op = "BLTZAL" -> AsI32(read_gp(link_register(c, 31), i.source)) < 0
      [] OTHER -> FALSE

CondBranchOps == {"BEQ", "BNE", "BGTZ", "BLEZ", "BGEZ", "BLTZ", "BGEZAL", "BLTZAL"}

\* What hist keeps of a step() that ended in state t: the address and the
\* word of the instruction, whether it was a taken branch or a jump, whether
\* it sat in the delay slot of the step before, and how many exceptions the
\* step reported.
StepRecord(c, t) ==
    LET f == Fetch(c)
        i == decode(f.instr_bits)
    IN  [addr   |-> t.current_instr_addr,
         word   |-> t.instr_bits,
         op     |-> i.op,
         taken  |-> Taken(f, i),
         delay  |-> Len(hist) > 0 /\ hist[Len(hist)].taken
                      /\ hist[Len(hist)].raised = 0,
         raised |-> Len(t.reports)]

HistLen == 3
Remember(h, r) ==
    IF Len(h) < HistLen THEN Append(h, r) ELSE Append(Tail(h), r)

(***************************************************************************)
(* Construction and the operations of the processor                        *)
(***************************************************************************)
\* MIPSI::new on the bus and the coprocessors of a setup, followed by the
\* embedder's write_gp calls that leave the registers regs.
InitRegs(setup, regs) ==
    /\ gp_reg = regs
    /\ hi = Zero32
    /\ lo = Zero32
    /\ pc = Zero32
    /\ pc_next = U32(4)
    /\ current_instr_addr = Zero32
    /\ branch_delay = FALSE
    /\ bytes = LoadProgram(setup.le, setup.words)
    /\ little_endian = setup.le
    /\ cop0_reg = ZeroRegs
    /\ cop = [z \in 1 .. 3 |-> [present |-> z \in setup.present,
                                data_reg |-> ZeroRegs,
                                control_reg |-> ZeroRegs]]
    /\ failure = FALSE
    /\ instr_bits = Zero32
    /\ reports = <<>>
    /\ vectors = <<>>
    /\ irq = FALSE
    /\ cop_calls = <<>>
    /\ clocks = 0
    /\ polls = 0
    /\ hist = <<>>
    /\ steps = 0
    /\ writes = 0
    /\ resets = 0
    /\ irqs = 0

InitWith(setup) == InitRegs(setup, ZeroRegs)

Init == \E setup \in Setups : InitWith(setup)

\* step(): coprocessor 0 answers the interrupt poll with i and its reports
\* with the vectors o.
Step ==
    /\ ~failure
    /\ steps < MaxSteps
    /\ \E o \in Oracles, i \in BOOLEAN :
         /\ i => irqs < MaxIrqs
         /\ \E t \in {step(Cpu(o, i))} :
                /\ gp_reg' = t.gp_reg
                /\ hi' = t.hi
                /\ lo' = t.lo
                /\ pc' = t.pc
                /\ pc_next' = t.pc_next
                /\ current_instr_addr' = t.current_instr_addr
                /\ branch_delay' = t.branch_delay
                /\ bytes' = t.bytes
                /\ cop0_reg' = t.cop0_reg
                /\ cop' = t.cop
                /\ failure' = t.failure
                /\ instr_bits' = t.instr_bits
                /\ reports' = t.reports
                /\ vectors' = t.vectors
                /\ irq' = (i /\ ~t.failure)
                /\ cop_calls' = t.cop_calls
                /\ clocks' = t.clocks
                /\ polls' = t.polls
                /\ hist' = IF t.failure THEN hist
                           ELSE Remember(hist, StepRecord(Cpu(o, i), t))
                /\ irqs' = IF i /\ ~t.failure THEN irqs + 1 ELSE irqs
         /\ steps' = steps + 1
         /\ UNCHANGED <<little_endian, writes, resets>>

\* write_gp(reg, val), called by the embedder between steps.
WriteGp ==
    /\ ~failure
    /\ writes < MaxWrites
    /\ \E reg \in WriteRegs, val \in WriteVals :
         gp_reg' = write_gp(Cpu(<<>>, FALSE), reg, val).gp_reg
    /\ writes' = writes + 1
    /\ UNCHANGED <<hi, lo, pc, pc_next, current_instr_addr, branch_delay,
                   bytes, little_endian, cop0_reg, cop, failure, instr_bits,
                   reports, vectors, irq, cop_calls, clocks, polls,
                   hist, steps, resets, irqs>>

\* reset(): coprocessor 0 answers with the reset vector addr.
Reset ==
    /\ ~failure
    /\ resets < MaxResets
    /\ \E addr \in ResetVectors :
         LET t == reset(Cpu(<<>>, FALSE), addr)
         IN  /\ pc' = t.pc
             /\ pc_next' = t.pc_next
    /\ resets' = resets + 1
    /\ hist' = <<>>
    /\ UNCHANGED <<gp_reg, hi, lo, current_instr_addr, branch_delay,
                   bytes, little_endian, cop0_reg, cop, failure, instr_bits,
                   reports, vectors, irq, cop_calls, clocks, polls,
                   steps, writes, irqs>>

Next == Step \/ WriteGp \/ Reset

Spec == Init /\ [][Next]_vars


(***************************************************************************)
(* One arithmetic instruction on boundary operands.  The embedder writes   *)
(* r1, r2 and r3 with write_gp (as the tests of mips1_test.rs do); the     *)
(* program moves r1 and r2 to HI and LO and then runs the instruction.     *)
(***************************************************************************)
ArithVals ==
    {Zero32, U32(1), U32(5), W(0, 65535), W(32767, 65535), W(32768, 0),
     W(65535, 65534), W(65535, 65535)}

ArithWords ==
    {ADD_W(1, 2, 3), SUB_W(1, 2, 3), ADDU_W(1, 2, 3), SUBU_W(1, 2, 3),
     ADDI_W(1, 3, 1), ADDI_W(1, 3, 256), ADDI_W(1, 3, 65535),
     ADDIU_W(1, 3, 1), ADDIU_W(1, 3, 65535), ADD_W(1, 2, 0)}

ArithProg(w) == <<MTHI_W(1), MTLO_W(2), w>>
Preset == W(0, 21845)

InitArith ==
    \E w \in ArithWords, a \in ArithVals, b \in ArithVals :
        InitRegs(Setup(ArithProg(w), TRUE, {}),
                 [ZeroRegs EXCEPT ![1] = a, ![2] = b, ![3] = Preset])

SpecArith == InitArith /\ [][Step]_vars

(***************************************************************************)
(* One instruction word out of the whole decode space: every primary op,   *)
(* every SPECIAL funct, every REGIMM rt and every rs of the four           *)
(* coprocessor ops.  The embedder writes r1 and r2.                        *)
(***************************************************************************)
DecodeWords ==
    {W(op * 1024 + 33, 8) : op \in 0 .. 63}
    \cup {W(33, 6144 + funct) : funct \in 0 .. 63}
    \cup {W(1024 + 32 + rt, 2) : rt \in 0 .. 31}
    \cup {W(z * 1024 + rs * 32 + 1, 2049) : z \in 16 .. 19, rs \in 0 .. 31}

InitDecode ==
    \E w \in DecodeWords :
        InitRegs(Setup(<<w>>, TRUE, OnlyCop1),
                 [ZeroRegs EXCEPT ![1] = U32(4), ![2] = W(65535, 65535)])

SpecDecode == InitDecode /\ [][Step]_vars

(***************************************************************************)
(* Properties.  Arithmetic on words is restated here on the two halves,    *)
(* independently of the operators the instructions use.                    *)
(***************************************************************************)
\* The high half of a word as a signed number.
SignedHi(w) == IF w[1] >= M15 THEN w[1] - M16 ELSE w[1]
\* The signed sum (difference) of a and b lies outside [-2^31, 2^31 - 1].
SumOutOfRange(a, b) ==
    LET h == SignedHi(a) + SignedHi(b) + ((a[2] + b[2]) \div M16)
    IN  h < 0 - M15 \/ h >= M15
DiffOutOfRange(a, b) ==
    LET h == (SignedHi(a) - SignedHi(b)) + ((a[2] - b[2]) \div M16)
    IN  h < 0 - M15 \/ h >= M15
\* (a + b) mod 2^32 and (a - b) mod 2^32.
Sum32(a, b) ==
    W((a[1] + b[1] + ((a[2] + b[2]) \div M16)) % M16, (a[2] + b[2]) % M16)
Diff32(a, b) ==
    W(((a[1] - b[1]) + ((a[2] - b[2]) \div M16)) % M16, (a[2] - b[2]) % M16)
\* The sign-extended imm16, and a word shifted left by two.
SExt(imm) == IF imm >= M15 THEN W(65535, imm) ELSE W(0, imm)
Times4(w) == W((w[1] * 4 + ((w[2] * 4) \div M16)) % M16, (w[2] * 4) % M16)

\* The operands the instruction i reads from the registers before the step,
\* and the register it writes.
OperandA(i) == gp_reg[i.source]
OperandB(i) == IF i.op \in {"ADDI", "ADDIU"} THEN SExt(i.imm) ELSE gp_reg[i.target]
DestOf(i) == IF i.op \in {"ADDI", "ADDIU"} THEN i.target ELSE i.dest
Overflows(i) ==
    IF i.op = "SUB" THEN DiffOutOfRange(OperandA(i), OperandB(i))
    ELSE SumOutOfRange(OperandA(i), OperandB(i))
ResultOf(i) ==
    IF i.op \in {"SUB", "SUBU"} THEN Diff32(OperandA(i), OperandB(i))
    ELSE Sum32(OperandA(i), OperandB(i))

\* The reports of a step with the given code.
WithCode(rs, code) == {k \in DOMAIN rs : rs[k].code = code}
\* The last entry of hist: the step() most recently completed, as long as no
\* reset() came after it.
LastStep == hist[Len(hist)]
AfterStep == Len(hist) > 0 /\ ~failure

\* C1: ADD, SUB and ADDI raise ArithmeticOverflow exactly when the signed
\* 32-bit sum or difference is out of range; otherwise they raise nothing
\* and write the low 32 bits of the result to the destination.
C1_TrapExactlyOnSignedOverflow ==
    [][(steps' = steps + 1 /\ ~failure'
          /\ decode(instr_bits').op \in {"ADD", "SUB", "ADDI"})
       => LET i == decode(instr_bits')
          IN  IF Overflows(i)
              THEN WithCode(reports', ArithmeticOverflow) # {}
              ELSE /\ WithCode(reports', ArithmeticOverflow) = {}
                   /\ DestOf(i) # 0 => gp_reg'[DestOf(i)] = ResultOf(i)]_vars

\* C2: whenever ADD, SUB or ADDI raises ArithmeticOverflow, every
\* general-purpose register (the destination among them), HI and LO keep
\* their values and coprocessor 0 receives exactly one report with code 12.
C2_OverflowWritesNothing ==
    [][(steps' = steps + 1 /\ ~failure'
          /\ decode(instr_bits').op \in {"ADD", "SUB", "ADDI"}
          /\ WithCode(reports', ArithmeticOverflow) # {})
       => /\ gp_reg' = gp_reg
          /\ hi' = hi
          /\ lo' = lo
          /\ Cardinality(WithCode(reports', 12)) = 1]_vars

\* C2 witness: a SUB has raised ArithmeticOverflow with operands in HI and
\* LO and the preset value still in its destination.
C2_Witness ==
    /\ ~failure
    /\ steps = 3
    /\ decode(instr_bits).op = "SUB"
    /\ Len(reports) > 0
    /\ reports[1].code = ArithmeticOverflow
    /\ gp_reg[3] = Preset
    /\ hi # Zero32

\* C3: ADDU, SUBU and ADDIU raise no exception (the only report such a step
\* can make is the Interrupt of the poll) and the destination receives
\* (a + b) mod 2^32 or (a - b) mod 2^32.
C3_UnsignedWraps ==
    [][(steps' = steps + 1 /\ ~failure'
          /\ decode(instr_bits').op \in {"ADDU", "SUBU", "ADDIU"})
       => LET i == decode(instr_bits')
          IN  /\ Len(reports') = IF irq' THEN 1 ELSE 0
              /\ WithCode(reports', Interrupt) = DOMAIN reports'
              /\ DestOf(i) # 0 => gp_reg'[DestOf(i)] = ResultOf(i)]_vars

\* C3 witness: ADDU of 0x7FFF_FFFF + 1 has written 0x8000_0000.
C3_Witness ==
    /\ ~failure
    /\ steps = 3
    /\ decode(instr_bits).op = "ADDU"
    /\ gp_reg[1] = W(32767, 65535)
    /\ gp_reg[2] = U32(1)
    /\ gp_reg[3] = W(32768, 0)
    /\ reports = <<>>

\* The three most recent steps, oldest first, when there are three.
Three == Len(hist) >= 3 /\ ~failure
First == hist[Len(hist) - 2]
Second == hist[Len(hist) - 1]
Sequenced ==
    /\ Second.addr = Sum32(First.addr, U32(4))
    /\ LastStep.addr =
         IF First.taken
         THEN Sum32(Sum32(First.addr, U32(4)), Times4(SExt(First.word[2])))
         ELSE Sum32(First.addr, U32(8))

\* C4 as stated: after a conditional branch at A that is not in a delay
\* slot, the next two steps execute A+4 and then A+4+(sign_extend(imm)<<2)
\* if the condition held, A+8 if it did not.
C4_DelaySlotSequencing ==
    (Three /\ First.op \in CondBranchOps /\ ~First.delay) => Sequenced

\* C4 amended: the same, provided neither the step of the branch nor the
\* step of the instruction at A+4 reported an exception (a trap or the
\* Interrupt of the poll sends the next fetch to the vector).
C4_DelaySlotSequencingNoException ==
    (Three /\ First.op \in CondBranchOps /\ ~First.delay
       /\ First.raised = 0 /\ Second.raised = 0) => Sequenced

\* C4 witness: a taken backward branch, its delay slot and its target have
\* executed without an exception.
C4_Witness ==
    /\ Three
    /\ First.op \in CondBranchOps
    /\ ~First.delay
    /\ First.taken
    /\ First.word[2] >= M15
    /\ First.raised = 0
    /\ Second.raised = 0

\* C5: between instructions branch_delay is true if and only if the
\* instruction of the most recent step was a taken branch or a jump.
C5_BranchDelayFollowsLastStep ==
    AfterStep => (branch_delay <=> LastStep.taken)

\* C6: every report of a step on the instruction at X has branch_delay true
\* and ret_addr X-4 if X is the delay slot of a taken branch or jump executed
\* by the step before, and branch_delay false and ret_addr X otherwise.
C6_ReportNamesDelaySlot ==
    AfterStep =>
      \A k \in DOMAIN reports :
         IF LastStep.delay
         THEN reports[k].branch_delay
                /\ reports[k].ret_addr = Diff32(LastStep.addr, U32(4))
         ELSE ~reports[k].branch_delay
                /\ reports[k].ret_addr = LastStep.addr

\* C7: after a step that reported an exception, pc is the vector coprocessor
\* 0 returned for the last report of the step and pc_next is that vector
\* plus 4; the next step fetches from the vector.
C7_VectorOfLastReport ==
    [][/\ (steps' = steps + 1 /\ ~failure' /\ Len(reports') > 0)
          => /\ pc' = vectors'[Len(vectors')]
             /\ pc_next' = Sum32(vectors'[Len(vectors')], U32(4))
       /\ (steps' = steps + 1 /\ ~failure' /\ AfterStep /\ Len(reports) > 0)
          => current_instr_addr' = vectors[Len(vectors)]]_vars

\* C7 witness: an instruction in the delay slot of a taken branch trapped and
\* the poll raised an Interrupt in the same step; the two reports were
\* answered with different vectors.
C7_Witness ==
    /\ AfterStep
    /\ LastStep.delay
    /\ Len(reports) = 2
    /\ vectors[1] # vectors[2]
    /\ pc = vectors[2]

\* C8: register 0 reads 0 in every reachable state, and write_gp(i, v)
\* followed by read_gp(i) returns v for every i # 0.
C8_RegisterZero ==
    /\ read_gp(Cpu(<<>>, FALSE), 0) = Zero32
    /\ \A i \in RegIdx \ {0}, v \in WriteVals :
          read_gp(write_gp(Cpu(<<>>, FALSE), i, v), i) = v

\* C8 witness: a JALR with rd = 0 has executed and the embedder has written
\* 0xFFFF_FFFF to r1.
C8_Witness ==
    /\ AfterStep
    /\ LastStep.op = "JALR"
    /\ decode(LastStep.word).dest = 0
    /\ writes = 1
    /\ gp_reg[1] = W(65535, 65535)

\* C9: a step that reports no exception leaves pc at the pc_next it started
\* with, and its instruction word is the word at the pc it started with.
C9_PipelineShift ==
    [][(steps' = steps + 1 /\ ~failure' /\ reports' = <<>>)
       => /\ pc' = pc_next
          /\ current_instr_addr' = pc
          /\ instr_bits' = read_word(Cpu(<<>>, FALSE), pc)]_vars

\* C9 witness: the delay slot of a taken branch has executed without an
\* exception, so pc is the branch target and not the next word.
C9_Witness ==
    /\ AfterStep
    /\ LastStep.delay
    /\ reports = <<>>
    /\ pc # Sum32(current_instr_addr, U32(4))

\* The words that match an entry of the op, SPECIAL funct, REGIMM rt and
\* COPz rs tables.
SpecialFuncts ==
    {0, 2, 3, 4, 6, 7, 8, 9, 12, 13, 16, 17, 18, 19, 24, 25, 26, 27,
     32, 33, 34, 35, 36, 37, 38, 39, 42, 43}
PlainOps ==
    (2 .. 15) \cup (32 .. 38) \cup {40, 41, 42, 43, 46} \cup (49 .. 51) \cup (57 .. 59)
InTable(w) ==
    LET op == w[1] \div 1024
        rs == (w[1] \div 32) % 32
        rt == w[1] % 32
        funct == w[2] % 64
    IN  \/ op \in PlainOps
        \/ op = 0 /\ funct \in SpecialFuncts
        \/ op = 1 /\ rt \in {0, 1, 16, 17}
        \/ op = 16 /\ (rs \in {0, 4} \/ rs >= 16)
        \/ op \in 17 .. 19 /\ (rs \in {0, 2, 4, 6} \/ rs >= 16)

\* C10: a word that matches no table entry decodes to None and its step
\* reports ReservedInstruction (followed at most by the Interrupt of the
\* poll), leaving the registers, HI, LO, memory and coprocessors 1-3 as they
\* were; a word that matches a table entry decodes to an instruction.
C10_UndecodableIsReserved ==
    [][(steps' = steps + 1 /\ ~failure')
       => IF InTable(instr_bits')
          THEN decode(instr_bits') # NoInstr
          ELSE /\ decode(instr_bits') = NoInstr
               /\ Len(reports') >= 1
               /\ reports'[1].code = ReservedInstruction
               /\ WithCode(reports', Interrupt) = DOMAIN reports' \ {1}
               /\ gp_reg' = gp_reg
               /\ hi' = hi
               /\ lo' = lo
               /\ bytes' = bytes
               /\ cop' = cop
               /\ cop_calls' = <<>>]_vars

\* C10 witness: a SPECIAL word with an unassigned funct has been stepped and
\* reported as ReservedInstruction with r1 and r2 still set.
C10_Witness ==
    /\ ~failure
    /\ steps = 1
    /\ instr_bits[1] \div 1024 = 0
    /\ ~InTable(instr_bits)
    /\ Len(reports) > 0
    /\ reports[1].code = ReservedInstruction
    /\ gp_reg[1] = U32(4)
    /\ gp_reg[2] = W(65535, 65535)

(***************************************************************************)
(* C11: every step() that returns has clocked the bus exactly once and     *)
(* passed the result to coprocessor 0's external_interrupt exactly once,   *)
(* after the instruction was executed (or ReservedInstruction raised); it  *)
(* reports Interrupt exactly when that call answered true, as the last     *)
(* report of the step and at most once.                                    *)
(***************************************************************************)
C11_ClockAndPollOncePerStep ==
    [][(steps' = steps + 1 /\ ~failure') =>
         /\ clocks' = 1
         /\ polls' = 1
         /\ irq' <=> WithCode(reports', Interrupt) # {}
         /\ \A k \in WithCode(reports', Interrupt) : k = Len(reports')
      ]_vars

\* C11 witness: a step whose instruction trapped and whose poll, made all
\* the same, answered true: two reports, one clock, one poll.
C11_Witness ==
    /\ AfterStep
    /\ clocks = 1 /\ polls = 1 /\ irq
    /\ Len(reports) = 2
    /\ reports[1].code # Interrupt
    /\ reports[2].code = Interrupt

\* The coprocessor number z a word addresses, and whether the word is one of
\* MTCz, MFCz, CTCz, CFCz, COPz, LWCz, SWCz for z in 1..3.
SlotOf(w) == (w[1] \div 1024) % 4
IsCoprocWord(w) ==
    LET op == w[1] \div 1024
        rs == (w[1] \div 32) % 32
    IN  \/ op \in 17 .. 19 /\ (rs \in {0, 2, 4, 6} \/ rs >= 16)
        \/ op \in 49 .. 51
        \/ op \in 57 .. 59

DIVU_W(rs, rt) == make_r_instr(rs, rt, 0, 0, 27)
DivWords == {DIV_W(1, 2), DIVU_W(1, 2)}

InitDiv ==
    \E w \in DivWords, a \in ArithVals, b \in ArithVals :
        InitRegs(Setup(ArithProg(w), TRUE, {}),
                 [ZeroRegs EXCEPT ![1] = a, ![2] = b])

SpecDiv == InitDiv /\ [][Step]_vars

\* C13: a step() whose instruction is fetched from an address the bus serves
\* runs to completion: it returns without a host-level failure, whatever the
\* instruction word and the registers, including DIV and DIVU by zero and
\* DIV of 0x8000_0000 by 0xFFFF_FFFF.
C13_StepRunsToCompletion ==
    [][(steps' = steps + 1 /\ InMem(pc, 4)) => ~failure']_vars

\* C14: after reset(), called in any state, PC is the address coprocessor 0's
\* reset() returned, PC_next is that address plus 4 and branch_delay is
\* false.
C14_ResetState ==
    [][resets' = resets + 1 =>
         /\ pc' \in ResetVectors
         /\ pc_next' = Sum32(pc', U32(4))
         /\ ~branch_delay']_vars

LinkBranchOps == {"BLTZAL", "BGEZAL"}

\* C15 as stated: every execution of BLTZAL or BGEZAL at address A leaves
\* A+8 in r31, whether or not the branch condition holds.
C15_LinkIsAPlus8 ==
    [][(steps' = steps + 1 /\ ~failure'
          /\ hist'[Len(hist')].op \in LinkBranchOps)
       => gp_reg'[31] = Sum32(current_instr_addr', U32(8))]_vars

\* C15 amended: the same for a BLTZAL or BGEZAL that is not in the delay
\* slot of a taken branch or jump (there r31 receives the PC_next of that
\* moment, which is the pending target plus 4).
C15_LinkIsAPlus8OutsideDelaySlot ==
    [][(steps' = steps + 1 /\ ~failure'
          /\ hist'[Len(hist')].op \in LinkBranchOps
          /\ ~hist'[Len(hist')].delay)
       => gp_reg'[31] = Sum32(current_instr_addr', U32(8))]_vars

\* C15 witness: BGEZAL at A with a negative rs did not branch, r31 holds A+8
\* and the next two steps executed A+4 and A+8.
C15_Witness ==
    /\ Three
    /\ First.op = "BGEZAL"
    /\ ~First.taken
    /\ ~First.delay
    /\ gp_reg[1] = W(65535, 65535)
    /\ gp_reg[31] = Sum32(First.addr, U32(8))
    /\ Second.addr = Sum32(First.addr, U32(4))
    /\ LastStep.addr = Sum32(First.addr, U32(8))

\* The 26-bit target field of a J or JAL word, and (P & 0xF000_0000) | (t << 2).
TargetField(w) == (w[1] % 1024) * M16 + w[2]
SegmentTarget(P, t) ==
    W((P[1] \div 4096) * 4096 + ((t * 4) \div M16), (t * 4) % M16)
JumpOps == {"J", "JAL"}

C16_WitnessFetch ==
    /\ Three
    /\ First.op = "JAL"
    /\ First.addr = Zero32
    /\ LastStep.addr = U32(12)

RegJumpOps == {"JR", "JALR"}
SourceField(w) == (w[1] \div 32) % 32

LH_W(rs, rt, imm) == make_i_instr(33, rs, rt, imm)
LWL_W(rs, rt, imm) == make_i_instr(34, rs, rt, imm)
LHU_W(rs, rt, imm) == make_i_instr(37, rs, rt, imm)
LWR_W(rs, rt, imm) == make_i_instr(38, rs, rt, imm)
SH_W(rs, rt, imm) == make_i_instr(41, rs, rt, imm)

SWL_W(rs, rt, imm) == make_i_instr(42, rs, rt, imm)
SWR_W(rs, rt, imm) == make_i_instr(46, rs, rt, imm)
MemData == <<W(33170, 41908), W(50646, 59384)>>
MemVals == {Zero32, W(4660, 35483), W(65535, 65535)}
MemAddrs == 16 .. 22
MemProgs ==
    {<<LWR_W(1, 2, 0), LWL_W(1, 2, 3)>>, <<LWL_W(1, 2, 3), LWR_W(1, 2, 0)>>,
     <<LWL_W(1, 2, 0), LWR_W(1, 2, 3)>>, <<LWR_W(1, 2, 3), LWL_W(1, 2, 0)>>,
     <<SW_W(1, 2, 0), LW_W(1, 3, 0)>>,
     <<SH_W(1, 2, 0), LHU_W(1, 3, 0), LH_W(1, 4, 0)>>,
     <<SWR_W(1, 2, 0), SWL_W(1, 2, 3), LWR_W(1, 3, 0), LWL_W(1, 3, 3)>>,
     <<SWL_W(1, 2, 3), SWR_W(1, 2, 0), LWL_W(1, 3, 3), LWR_W(1, 3, 0)>>,
     <<SWL_W(1, 2, 0), SWR_W(1, 2, 3), LWL_W(1, 3, 0), LWR_W(1, 3, 3)>>,
     <<SWR_W(1, 2, 3), SWL_W(1, 2, 0), LWR_W(1, 3, 3), LWL_W(1, 3, 0)>>}

InitMem ==
    \E le \in BOOLEAN, p \in MemProgs, A \in MemAddrs, v \in MemVals :
        InitRegs(Setup(Prog(p, MemData, <<>>, <<>>), le, {}),
                 [ZeroRegs EXCEPT ![1] = U32(A), ![2] = v])

SpecMem == InitMem /\ [][Step]_vars

\* The word formed by the four bytes at a .. a+3 in the bus's byte order.
WordAt(a) ==
    IF little_endian
    THEN W(bytes[a + 2] + 256 * bytes[a + 3], bytes[a] + 256 * bytes[a + 1])
    ELSE W(256 * bytes[a] + bytes[a + 1], 256 * bytes[a + 2] + bytes[a + 3])

\* The last two steps executed the LWL/LWR pair for the unaligned word at
\* base + imm, in either order: on a little-endian bus LWR imm and LWL
\* imm+3, on a big-endian bus LWL imm and LWR imm+3, same base and target.
PairAt(base, rt, imm) ==
    /\ Len(hist) >= 2
    /\ ~failure
    /\ {Second.word, LastStep.word} =
         IF little_endian
         THEN {LWR_W(base, rt, imm), LWL_W(base, rt, imm + 3)}
         ELSE {LWL_W(base, rt, imm), LWR_W(base, rt, imm + 3)}

\* C18: on either bus and for every byte address A, once the LWL/LWR pair
\* for the unaligned word at A has executed, in either order and whatever
\* rt held before, rt holds the word formed by the bytes A .. A+3 in the
\* bus's byte order.
C18_PairLoadsUnalignedWord ==
    PairAt(1, 2, 0) => gp_reg[2] = WordAt(gp_reg[1][2])

\* C18 witness: on a big-endian bus the pair at A = 19 (A mod 4 = 3), LWR
\* first, has left the bytes 19 .. 22, 0xB4C5_D6E7, in r2.
C18_Witness ==
    /\ PairAt(1, 2, 0)
    /\ ~little_endian
    /\ gp_reg[1] = U32(19)
    /\ LastStep.op = "LWL"
    /\ gp_reg[2] = W(46277, 55015)

\* C19: on either bus, after SW of V to a 4-byte-aligned A and LW from A the
\* loaded register holds V; after SH of V to a 2-byte-aligned A, LHU from A
\* and LH from A, the registers hold the low 16 bits of V zero-extended and
\* sign-extended; and the SH step changes no byte other than A and A+1.
C19_StoreLoadRoundTrip ==
    /\ []((Len(hist) >= 2 /\ ~failure
             /\ Second.word = SW_W(1, 2, 0) /\ LastStep.word = LW_W(1, 3, 0)
             /\ gp_reg[1][2] % 4 = 0)
          => gp_reg[3] = gp_reg[2])
    /\ []((Three /\ First.word = SH_W(1, 2, 0)
             /\ Second.word = LHU_W(1, 3, 0) /\ LastStep.word = LH_W(1, 4, 0)
             /\ gp_reg[1][2] % 2 = 0)
          => /\ gp_reg[3] = W(0, gp_reg[2][2])
             /\ gp_reg[4] = SExt(gp_reg[2][2]))
    /\ [][(steps' = steps + 1 /\ ~failure' /\ instr_bits' = SH_W(1, 2, 0)
             /\ gp_reg[1][2] % 2 = 0)
          => \A k \in DOMAIN bytes \ {gp_reg[1][2], gp_reg[1][2] + 1} :
                bytes'[k] = bytes[k]]_vars

\* C19 witness: on a big-endian bus SH of 0x8A9B to 18, LHU and LH have
\* executed; the halfword lies at 18 and 19, high byte first, the bytes 16
\* and 17 of the same word are as before, and LH sign-extended it.
C19_Witness ==
    /\ Three
    /\ ~little_endian
    /\ First.word = SH_W(1, 2, 0)
    /\ LastStep.word = LH_W(1, 4, 0)
    /\ gp_reg[1] = U32(18)
    /\ bytes[16] = 129 /\ bytes[17] = 146
    /\ bytes[18] = 138 /\ bytes[19] = 155
    /\ gp_reg[3] = W(0, 35483)
    /\ gp_reg[4] = W(65535, 35483)

\* C19 witness of the word round trip: on a little-endian bus SW of
\* 0x1234_8A9B to 20 and LW from 20 have executed.
C19_WitnessWord ==
    /\ Len(hist) >= 2 /\ ~failure
    /\ little_endian
    /\ Second.word = SW_W(1, 2, 0) /\ LastStep.word = LW_W(1, 3, 0)
    /\ gp_reg[1] = U32(20)
    /\ gp_reg[3] = W(4660, 35483)
    /\ bytes[20] = 155

\* ExceptionCode::AddrErrorLoad
AddrErrorLoad == 4

\* C20: between instructions PC has its low two bits zero, unless the step
\* just completed reported AddrErrorLoad; the reset vector and the exception
\* vectors are word-aligned.
C20_PcWordAligned ==
    (~failure /\ WithCode(reports, AddrErrorLoad) = {}) => pc[2] % 4 = 0

\* C21: between instructions PC_next = PC + 4 (mod 2^32) unless the
\* instruction of the most recent step() was a taken branch or a jump: so
\* after construction, after reset(), after an untaken branch, after a
\* delay-slot instruction and after an exception has vectored.
C21_SequentialUnlessTaken ==
    (~failure /\ (Len(hist) = 0 \/ ~LastStep.taken))
       => pc_next = Sum32(pc, U32(4))

\* C21 witness: the delay-slot instruction of a taken branch raised an
\* exception; PC is the vector and PC_next the vector plus 4.
C21_Witness ==
    /\ AfterStep
    /\ LastStep.delay
    /\ ~LastStep.taken
    /\ reports # <<>>
    /\ pc \in Vectors
    /\ pc_next = Sum32(pc, U32(4))

(***************************************************************************)
(* Coprocessor moves and operations: MTCz r1 / MFCz r2 on data register 5, *)
(* or one COPz word, for each z, with all of the slots 1..3 filled or      *)
(* none.                                                                   *)
(***************************************************************************)
CoFuns == {0, 1, 2, 1193046, 33554431}
CopPresents == {{1, 2, 3}, {}}
CopProgs(z) ==
    {<<MTC_W(z, 1, 5), MFC_W(z, 2, 5)>>, <<MTC_W(z, 2, 5), MFC_W(z, 0, 5)>>}
    \cup {<<COP_W(z, f)>> : f \in CoFuns}

InitCop ==
    \E present \in CopPresents, z \in 0 .. 3, v \in MemVals :
      \E p \in CopProgs(z) :
        InitRegs(Setup(Prog(p, <<>>, <<>>, <<>>), TRUE, present),
                 [ZeroRegs EXCEPT ![1] = v, ![2] = U32(7)])

SpecCop == InitCop /\ [][Step]_vars

\* The fields rt and rd of a coprocessor move.
TargetField5(w) == w[1] % 32
DestField5(w) == w[2] \div 2048
IsMove(w, rs) ==
    /\ w[1] \div 1024 \in 17 .. 19
    /\ (w[1] \div 32) % 32 = rs
    /\ cop[SlotOf(w)].present
OnlyInterrupts(rs) == WithCode(rs, Interrupt) = DOMAIN rs

\* C22: with a coprocessor in slot z, a step that executes MTCz rt, rd sets
\* data register rd of coprocessor z to gp[rt], changes nothing else in any
\* slot and no GPR; a step that executes MFCz rt, rd sets gp[rt] to data
\* register rd of coprocessor z (r0 stays 0) and changes no coprocessor;
\* neither raises an exception.  So after MTCz from r1 and MFCz of the same
\* register into r2, r2 = r1.
C22_MoveToAndFromCoprocessor ==
    /\ [][(steps' = steps + 1 /\ ~failure' /\ IsMove(instr_bits', 4))
          => /\ cop' = [cop EXCEPT
                          ![SlotOf(instr_bits')].data_reg[DestField5(instr_bits')]
                              = gp_reg[TargetField5(instr_bits')]]
             /\ gp_reg' = gp_reg
             /\ OnlyInterrupts(reports')]_vars
    /\ [][(steps' = steps + 1 /\ ~failure' /\ IsMove(instr_bits', 0))
          => /\ gp_reg' =
                  IF TargetField5(instr_bits') = 0 THEN gp_reg
                  ELSE [gp_reg EXCEPT ![TargetField5(instr_bits')] =
                          cop[SlotOf(instr_bits')].data_reg[DestField5(instr_bits')]]
             /\ cop' = cop
             /\ OnlyInterrupts(reports')]_vars
    /\ []((Len(hist) >= 2 /\ ~failure /\ IsMove(LastStep.word, 0)
             /\ Second.word = MTC_W(SlotOf(LastStep.word), 1, 5)
             /\ LastStep.word = MFC_W(SlotOf(LastStep.word), 2, 5))
          => gp_reg[2] = gp_reg[1])

\* C22 witness: MTC2 r1, 5 and MFC2 r2, 5 have executed with r1 =
\* 0x1234_8A9B: data register 5 of coprocessor 2 and r2 hold that value,
\* the coprocessors 1 and 3 hold nothing.
C22_Witness ==
    /\ Len(hist) >= 2 /\ ~failure
    /\ Second.word = MTC_W(2, 1, 5)
    /\ LastStep.word = MFC_W(2, 2, 5)
    /\ cop[2].present
    /\ cop[2].data_reg[5] = W(4660, 35483)
    /\ cop[1].data_reg[5] = Zero32 /\ cop[3].data_reg[5] = Zero32
    /\ gp_reg[2] = W(4660, 35483)

\* A word with op = 0x10 + z and bit 25 set, and its low 25 bits.
IsCopzWord(w) == w[1] \div 1024 \in 16 .. 19 /\ (w[1] \div 512) % 2 = 1
CoFunField(w) == W(w[1] % 512, w[2])
OperationOnce(z, w, calls) ==
    calls = <<Call(z, "operation", 0, CoFunField(w))>>

\* C23 as stated: for z in 0..3, a step on any word with op = 0x10 + z and
\* bit 25 set invokes the operation entry point of coprocessor z exactly
\* once, with the word's low 25 bits, invokes nothing else on any
\* coprocessor and writes no GPR.
C23_CopzInvokesOperation ==
    [][(steps' = steps + 1 /\ ~failure' /\ IsCopzWord(instr_bits'))
       => /\ OperationOnce(SlotOf(instr_bits'), instr_bits', cop_calls')
          /\ gp_reg' = gp_reg]_vars

\* C23 amended: the same when z = 0 or slot z holds a coprocessor; with an
\* empty slot z the step invokes nothing and reports CoProcUnusable.
C23_CopzInvokesOperationIfPresent ==
    [][(steps' = steps + 1 /\ ~failure' /\ IsCopzWord(instr_bits'))
       => /\ gp_reg' = gp_reg
          /\ IF SlotOf(instr_bits') = 0 \/ cop[SlotOf(instr_bits')].present
             THEN /\ OperationOnce(SlotOf(instr_bits'), instr_bits', cop_calls')
                  /\ OnlyInterrupts(reports')
             ELSE /\ cop_calls' = <<>>
                  /\ WithCode(reports', CoProcUnusable) = {1}]_vars

\* C23 witness: COP3 with cofun 0x1FF_FFFF has been stepped with slot 3
\* filled; coprocessor 3 received operation(0x1FF_FFFF) and nothing else was
\* called.
C23_Witness ==
    /\ ~failure
    /\ steps = 1
    /\ instr_bits = COP_W(3, 33554431)
    /\ cop[3].present
    /\ cop_calls = <<Call(3, "operation", 0, W(511, 65535))>>
    /\ gp_reg[2] = U32(7)

(***************************************************************************)
(* Set on less than immediate: SLTI or SLTIU of r1 against an immediate,   *)
(* into r3, after the embedder wrote r1.                                   *)
(***************************************************************************)
SLTI_W(rs, rt, imm) == make_i_instr(10, rs, rt, imm)
SLTIU_W(rs, rt, imm) == make_i_instr(11, rs, rt, imm)
SetImms == {0, 1, 4096, 32767, 32768, 65534, 65535}
SetWords == {SLTI_W(1, 3, imm) : imm \in SetImms}
              \cup {SLTIU_W(1, 3, imm) : imm \in SetImms}

InitSet ==
    \E w \in SetWords, a \in ArithVals \cup {W(0, 4096), W(65535, 0)} :
        InitRegs(Setup(ArithProg(w), TRUE, {}),
                 [ZeroRegs EXCEPT ![1] = a, ![3] = W(0, 21845)])

SpecSet == InitSet /\ [][Step]_vars

\* a < b for words read as unsigned, and read as signed.
LessUnsigned(a, b) == a[1] < b[1] \/ (a[1] = b[1] /\ a[2] < b[2])
LessSigned(a, b) ==
    SignedHi(a) < SignedHi(b) \/ (SignedHi(a) = SignedHi(b) /\ a[2] < b[2])

\* C24: a step that executes SLTIU rt, rs, imm leaves in rt 1 if gp[rs] is
\* below the sign-extended immediate, both read as unsigned, and 0
\* otherwise; SLTI does the same with both read as signed.  No other
\* register changes.
C24_SetOnLessThanImmediate ==
    [][(steps' = steps + 1 /\ ~failure' /\ instr_bits' \in SetWords)
       => LET unsigned == instr_bits'[1] \div 1024 = 11
              imm32 == SExt(instr_bits'[2])
              less == IF unsigned THEN LessUnsigned(gp_reg[1], imm32)
                      ELSE LessSigned(gp_reg[1], imm32)
          IN  gp_reg' = [gp_reg EXCEPT ![3] = IF less THEN U32(1) ELSE Zero32]
      ]_vars

\* C24 witness: SLTIU of r1 = 0xFFFF_0000 against imm 0xFFFF, which compares
\* as 0xFFFF_FFFF, has set r3 to 1.
C24_Witness ==
    /\ AfterStep
    /\ LastStep.word = SLTIU_W(1, 3, 65535)
    /\ gp_reg[1] = W(65535, 0)
    /\ gp_reg[3] = U32(1)


(***************************************************************************)
(* C25: the moves to and from HI and LO.                                   *)
(*                                                                         *)
(* The repository holds two revisions of the processor.  The earlier one,  *)
(* src/src/cpu/mips1.rs, has no decoder: its step() fetches, advances pc   *)
(* and pc_next and matches on the op and funct fields directly.  Its       *)
(* processor has only gp_reg, hi, lo, pc, pc_next and mem, so a step of    *)
(* it leaves every other variable alone.  step_mips1_rs covers the arms    *)
(* InitHiLo can fetch: the four moves and the all-zero word (SLL).         *)
(***************************************************************************)
HiLoFuncts == {0, 16, 17, 18, 19}

\* match op() { 0 => match special_op() { ... } } of src/src/cpu/mips1.rs
special_mips1_rs(c, instr) ==
    LET special_op == instr[2] % 64
        f == Instr("SPECIAL", instr)
    IN  CASE special_op = 16 -> mfhi(c, f.dest)
          [] special_op = 18 -> mflo(c, f.dest)
          [] special_op = 17 -> mthi(c, f.source)
          [] special_op = 19 -> mthi(c, f.source)
          [] special_op = 0  -> sll(c, f.target, f.shift_amt, f.dest)

\* let instr = self.mem.read_word(self.pc.into()); self.pc = self.pc_next;
\* self.pc_next = self.pc_next.wrapping_add(4); match op() { ... }
step_mips1_rs(c) ==
    LET instr == read_word(c, c.pc)
        c1 == [c EXCEPT !.instr_bits = instr,
                        !.pc = c.pc_next,
                        !.pc_next = wrapping_add(c.pc_next, U32(4))]
    IN  special_mips1_rs(c1, instr)

IsHiLoWord(w) == w[1] \div 1024 = 0 /\ (w[2] % 64) \in HiLoFuncts

StepEarlier ==
    /\ ~failure
    /\ steps < MaxSteps
    /\ IsHiLoWord(read_word(Cpu(<<>>, FALSE), pc))
    /\ \E t \in {step_mips1_rs(Cpu(<<>>, FALSE))} :
          /\ gp_reg' = t.gp_reg
          /\ hi' = t.hi
          /\ lo' = t.lo
          /\ pc' = t.pc
          /\ pc_next' = t.pc_next
          /\ bytes' = t.bytes
          /\ instr_bits' = t.instr_bits
    /\ steps' = steps + 1
    /\ UNCHANGED <<current_instr_addr, branch_delay, little_endian, cop0_reg,
                   cop, failure, reports, vectors, irq, cop_calls, clocks,
                   polls, hist, writes, resets, irqs>>

MFHI_W(rd) == make_r_instr(0, 0, rd, 0, 16)

HiLoProgs ==
    {<<MTHI_W(1), MTLO_W(2), MFHI_W(3), MFLO_W(4)>>,
     <<MTLO_W(2), MTHI_W(1), MFLO_W(4), MFHI_W(3)>>,
     <<MTLO_W(1), MFLO_W(3), MFHI_W(4), MFLO_W(0)>>}

InitHiLo ==
    \E p \in HiLoProgs, le \in BOOLEAN, a \in ArithVals, b \in ArithVals :
        InitRegs(Setup(p, le, {}), [ZeroRegs EXCEPT ![1] = a, ![2] = b])

SpecHiLo == InitHiLo /\ [][StepEarlier]_vars

\* C25: a step that executes funct 0x11 (MTHI) sets HI to gp[rs] and leaves
\* LO, one that executes funct 0x13 (MTLO) sets LO to gp[rs] and leaves HI,
\* and funct 0x10 (MFHI) and 0x12 (MFLO) copy HI and LO into gp[rd] (r0
\* stays zero) and leave HI and LO.
C25_MoveHiLo ==
    [][(steps' = steps + 1 /\ ~failure' /\ instr_bits'[1] \div 1024 = 0) =>
          LET funct == instr_bits'[2] % 64
              rs == (instr_bits'[1] \div 32) % 32
              rd == instr_bits'[2] \div 2048
              moved(v) == IF rd = 0 THEN gp_reg
                          ELSE [gp_reg EXCEPT ![rd] = v]
          IN  /\ funct = 17 => (hi' = gp_reg[rs] /\ lo' = lo /\ gp_reg' = gp_reg)
              /\ funct = 19 => (lo' = gp_reg[rs] /\ hi' = hi /\ gp_reg' = gp_reg)
              /\ funct = 16 => (gp_reg' = moved(hi) /\ hi' = hi /\ lo' = lo)
              /\ funct = 18 => (gp_reg' = moved(lo) /\ hi' = hi /\ lo' = lo)]_vars

\* C26: with ba = addr mod 4 and W the aligned word at addr - ba, a step
\* that executes LWL sets rt to (rt & M) | (W << 8*off), off = 3-ba on a
\* little-endian bus and ba on a big-endian one, M = 0, 0x0000_00FF,
\* 0x0000_FFFF, 0x00FF_FFFF for off = 0..3; one that executes LWR sets rt to
\* (rt & M') | (W >> 8*off'), off' = ba on little-endian and 3-ba on
\* big-endian, M' = 0, 0xFF00_0000, 0xFFFF_0000, 0xFFFF_FF00.
C26_LoadWordLeftRight ==
    [][(steps' = steps + 1 /\ ~failure'
          /\ (instr_bits'[1] \div 1024) \in {34, 38}) =>
          LET rs == (instr_bits'[1] \div 32) % 32
              rt == instr_bits'[1] % 32
              addr == Sum32(gp_reg[rs], SExt(instr_bits'[2]))
              ba == addr[2] % 4
              Wd == WordAt(addr[2] - ba)
              M == <<Zero32, W(0, 255), W(0, 65535), W(255, 65535)>>
              Mr == <<Zero32, W(65280, 0), W(65535, 0), W(65535, 65280)>>
              offl == IF little_endian THEN 3 - ba ELSE ba
              offr == IF little_endian THEN ba ELSE 3 - ba
          IN  /\ instr_bits'[1] \div 1024 = 34 =>
                   gp_reg'[rt] = Or32(And32(gp_reg[rt], M[offl + 1]),
                                      Shl32(Wd, 8 * offl))
              /\ instr_bits'[1] \div 1024 = 38 =>
                   gp_reg'[rt] = Or32(And32(gp_reg[rt], Mr[offr + 1]),
                                      Shr32(Wd, 8 * offr))]_vars

\* C26 witness: on a little-endian bus, with 0x8192_A3B4 at 16 and rt =
\* 0xFFFF_FFFF, LWL at 17 has left 0xA3B4_FFFF in rt (off = 2).
C26_Witness ==
    /\ Len(hist) = 1
    /\ ~failure
    /\ little_endian
    /\ LastStep.word = LWL_W(1, 2, 0)
    /\ gp_reg[1] = U32(17)
    /\ gp_reg[2] = W(41908, 65535)

\* C26 witness of LWR: on the same bus, LWR at 17 with rt = 0xFFFF_FFFF has
\* left 0xFF81_92A3 in rt (off' = 1).
C26_WitnessRight ==
    /\ Len(hist) = 1
    /\ ~failure
    /\ little_endian
    /\ LastStep.word = LWR_W(1, 2, 0)
    /\ gp_reg[1] = U32(17)
    /\ gp_reg[2] = W(65409, 37539)

\* The two words of the SWL/SWR pair for the unaligned word at base + imm:
\* on a little-endian bus SWR imm and SWL imm+3, on a big-endian bus SWL imm
\* and SWR imm+3, same base and source register.
StorePair(base, rt, imm) ==
    IF little_endian
    THEN {SWR_W(base, rt, imm), SWL_W(base, rt, imm + 3)}
    ELSE {SWL_W(base, rt, imm), SWR_W(base, rt, imm + 3)}

\* C27: on either bus and for every byte address A, (1) a step that
\* executes one instruction of the SWL/SWR pair for A changes no memory byte
\* outside A .. A+3; (2) once both have executed, in either order, the bytes
\* A .. A+3 are the bytes of rt in the bus's byte order; (3) the LWL/LWR pair
\* at A that follows them reads the stored register value back.
C27_StorePairMirrorsLoadPair ==
    /\ [][(steps' = steps + 1 /\ ~failure'
             /\ instr_bits' \in StorePair(1, 2, 0))
          => \A k \in DOMAIN bytes :
                (k < gp_reg[1][2] \/ k > gp_reg[1][2] + 3)
                   => bytes'[k] = bytes[k]]_vars
    /\ []((Len(hist) >= 2 /\ ~failure
             /\ {Second.word, LastStep.word} = StorePair(1, 2, 0))
          => WordAt(gp_reg[1][2]) = gp_reg[2])
    /\ []((Three /\ steps = 4
             /\ First.addr = U32(4) /\ Second.addr = U32(8)
             /\ LastStep.addr = U32(12)
             /\ {WordAt(0), First.word} = StorePair(1, 2, 0)
             /\ PairAt(1, 3, 0))
          => gp_reg[3] = gp_reg[2])

\* C27 witness: on a little-endian bus SWL at 20 (A+3) and then SWR at 17
\* have stored 0x1234_8A9B to the bytes 17 .. 20; the byte 16 of the first
\* word and the bytes 21 .. 23 of the second are as before.
C27_Witness ==
    /\ Len(hist) = 2
    /\ ~failure
    /\ little_endian
    /\ gp_reg[1] = U32(17)
    /\ gp_reg[2] = W(4660, 35483)
    /\ Second.word = SWL_W(1, 2, 3)
    /\ LastStep.word = SWR_W(1, 2, 0)
    /\ <<bytes[16], bytes[17], bytes[18], bytes[19]>> = <<180, 155, 138, 52>>
    /\ <<bytes[20], bytes[21], bytes[22], bytes[23]>> = <<18, 231, 214, 197>>

\* C27 witness of the round trip: on a big-endian bus the store pair and the
\* load pair at 18 have executed and r3 holds the 0x1234_8A9B that r2 held.
C27_WitnessReadBack ==
    /\ Three /\ steps = 4
    /\ ~little_endian
    /\ gp_reg[1] = U32(18)
    /\ {WordAt(0), First.word} = StorePair(1, 2, 0)
    /\ PairAt(1, 3, 0)
    /\ LastStep.addr = U32(12)
    /\ gp_reg[3] = W(4660, 35483)

\* C28: a step() delivers at most one exception report to coprocessor 0:
\* when the executed instruction raised an exception, no Interrupt is
\* reported in the same step, whatever external_interrupt answers.
C28_AtMostOneReport == Len(reports) <= 1

\* C28, amended: a step() delivers at most two reports, at most one raised
\* by the executed instruction (or ReservedInstruction, when the word does
\* not decode) and after it one Interrupt exactly when external_interrupt
\* answered true, also when the instruction already raised; pc is then the
\* vector coprocessor 0 answered to the Interrupt.
C28_AtMostOneReportAndOneInterrupt ==
    (AfterStep /\ steps > 0 /\ clocks = 1) =>
        /\ Len(reports) <= 2
        /\ \A k \in 1 .. Len(reports) :
              reports[k].code = Interrupt <=> (irq /\ k = Len(reports))
        /\ Len(reports) = 2 =>
              /\ reports[1].code # Interrupt
              /\ pc = vectors[2]

\* C28 witness: SYSCALL was executed and external_interrupt answered true:
\* the step reported Syscall and then Interrupt, and pc is the second vector.
C28_Witness ==
    /\ AfterStep
    /\ LastStep.word = SYSCALL_W
    /\ irq
    /\ Len(reports) = 2
    /\ reports[1].code = Syscall
    /\ reports[2].code = Interrupt
    /\ pc = vectors[2]
    /\ vectors[1] # vectors[2]

\* What a linking instruction with source = link register does when the
\* link value is L and the step reports nothing: JALR rs, rd with rs = rd #
\* 0 leaves L in rd and jumps to L; BGEZAL / BLTZAL with rs = 31 leave L in
\* r31 and branch (PC_next = the advanced PC + (sign_extend(imm) << 2)) when
\* L, not the old r31, satisfies the condition.
LinksBeforeRead(L) ==
    LET r == hist'[Len(hist')]
        rs == (instr_bits'[1] \div 32) % 32
        rd == instr_bits'[2] \div 2048
    IN  /\ (r.op = "JALR" /\ rs = rd /\ rd # 0)
             => (gp_reg'[rd] = L /\ pc_next' = L)
        /\ (r.op \in LinkBranchOps /\ rs = 31)
             => /\ gp_reg'[31] = L
                /\ pc_next' =
                     IF (r.op = "BGEZAL") = (AsI32(L) >= 0)
                     THEN Sum32(pc_next, BranchOffset(instr_bits'[2]))
                     ELSE Sum32(pc_next, U32(4))

\* C29 as stated: a linking instruction at A writes A+8 to its link register
\* before it reads its source, so JALR rs, rd with rs = rd # 0 jumps to A+8
\* and BLTZAL / BGEZAL with rs = 31 test A+8.
C29_LinkBeforeRead ==
    [][(steps' = steps + 1 /\ ~failure' /\ reports' = <<>>)
       => LinksBeforeRead(Sum32(current_instr_addr', U32(8)))]_vars

\* C29 amended: the link value is the PC_next of the moment of execution,
\* which is A+8 unless the instruction is in the delay slot of a taken
\* branch or jump; it is written before the source is read.
C29_LinkBeforeReadOfPcNext ==
    [][(steps' = steps + 1 /\ ~failure' /\ reports' = <<>>)
       => /\ LinksBeforeRead(Sum32(pc_next, U32(4)))
          /\ ~hist'[Len(hist')].delay
               => Sum32(pc_next, U32(4)) = Sum32(current_instr_addr', U32(8))
      ]_vars

\* C29 witness: r31 was 0x8000_0000 when BGEZAL r31 at 4 linked 12 and,
\* testing 12, branched to 16; there JALR r1, r1 with r1 = 0 linked 24 and
\* jumped to 24.
C29_Witness ==
    /\ Three
    /\ First.word = BGEZAL_W(31, 2) /\ First.addr = U32(4) /\ First.taken
    /\ Second.addr = U32(8)
    /\ LastStep.word = JALR_W(1, 1) /\ LastStep.addr = U32(16)
    /\ reports = <<>>
    /\ gp_reg[31] = U32(12)
    /\ gp_reg[1] = U32(24)
    /\ pc_next = U32(24)

\* C29 witness of BLTZAL: with r31 = 0x8000_0000, BLTZAL r31 at 32 linked 40
\* and, testing 40, did not branch.
C29_WitnessNotTaken ==
    /\ AfterStep
    /\ LastStep.word = BLTZAL_W(31, 1) /\ LastStep.addr = U32(32)
    /\ ~LastStep.delay
    /\ reports = <<>>
    /\ gp_reg[31] = U32(40)
    /\ pc_next = U32(40)

\* The words that would address coprocessor 0's control registers or move a
\* memory word to or from it: op 0x10 with rs 0x02 or 0x06, op 0x30, op 0x38.
IsCop0ControlWord(w) ==
    LET op == w[1] \div 1024
        rs == (w[1] \div 32) % 32
    IN  (op = 16 /\ rs \in {2, 6}) \/ op \in {48, 56}

ControlOps == {"CFCZ", "CTCZ", "LWCZ", "SWCZ"}

\* C30: no word decodes to CFC, CTC, LWC or SWC with coprocessor selector 0:
\* a fetched word that decodes to one of them has a selector in 1..3, and a
\* step that fetched op 0x10 with rs 0x02 or 0x06, op 0x30 or op 0x38 decodes
\* to None, reports ReservedInstruction first and returns (the unreachable!()
\* arms of ctcz, cfcz, lwcz and swcz are not executed).
C30_NoControlWordForCoprocessor0 ==
    /\ (steps > 0 /\ decode(instr_bits).op \in ControlOps)
          => decode(instr_bits).coproc \in 1 .. 3
    /\ (steps > 0 /\ IsCop0ControlWord(instr_bits))
          => /\ ~failure
             /\ decode(instr_bits) = NoInstr
             /\ (steps = 1 => /\ Len(reports) >= 1
                              /\ reports[1].code = ReservedInstruction)

\* C30 witness: the word op 0x10, rs 0x06 (CTC with selector 0) has been
\* stepped: ReservedInstruction was reported and no coprocessor was called.
C30_Witness ==
    /\ steps = 1
    /\ ~failure
    /\ instr_bits = W(16 * 1024 + 6 * 32 + 1, 2049)
    /\ reports[1].code = ReservedInstruction
    /\ cop_calls = <<>>
    /\ gp_reg[1] = U32(4)

\* C30 witness of the loads: op 0x30 (LWC with selector 0) has been stepped
\* and reported as ReservedInstruction.
C30_WitnessLoad ==
    /\ steps = 1
    /\ ~failure
    /\ instr_bits[1] \div 1024 = 48
    /\ reports[1].code = ReservedInstruction
    /\ bytes[4] = 0

=============================================================================
